---- MODULE Spec2Model ----
(***************************************************************************)
(* State-machine model of the climbing simulation of src/game.js.          *)
(*                                                                         *)
(* Numbers.  The program computes in IEEE doubles; the model computes in   *)
(* fixed point.  Lengths, coordinates and velocities are in tenths of a    *)
(* pixel, stamina is in tenths of a point, hold strengths (stickiness) are *)
(* in hundredths and total grip is in thousandths.  A product with a       *)
(* decimal factor of the source (0.1, 0.15, -0.3, ...) is rounded to the   *)
(* nearest unit by Frac.                                                   *)
(***************************************************************************)
EXTENDS Integers, Sequences, FiniteSets, TLC

VARIABLES
    canvas,      \* canvas.width, canvas.height (set by resizeCanvas)
    groundY,     \* CONFIG.groundY (set by resizeCanvas)
    perm,        \* the seeded permutation table of SimplexNoise
    player,      \* the global player object
    gameState,   \* the global gameState object
    chunks,      \* wallRenderer.chunks: the chunk indices held by the cache
    last,        \* what the last step was and which branches it took
    opening,     \* the events of the opening play still to come
    budget       \* inputs, off-centre draws and frames allowed after it

vars ==
    <<canvas, groundY, perm, player, gameState, chunks, last, opening, budget>>

----------------------------------------------------------------------------
(* CONFIG (src/game.js 11-70), in the units above.                         *)

gravity == 3
maxFallSpeed == 150
torsoLength == 500
upperArmLength == 350
lowerArmLength == 300
upperLegLength == 450
lowerLegLength == 400
limbReachSpeed == 80
grabThreshold == 15
minGripToHold == 300
playerWeight == 950
fallGracePeriod == 60
maxGripInstability == 120
maxStamina == 1000
staminaDepletion == 3
staminaRegen == 10
maxPitons == 10
wallWidth == 7000
wallMeanderAmp == 5000
noiseOctaves == 4
chunkSize == 5120

----------------------------------------------------------------------------
(* Arithmetic helpers.                                                     *)

Px(n) == 10 * n

Abs(a) == IF a < 0 THEN -a ELSE a
Min(a, b) == IF a < b THEN a ELSE b
Max(a, b) == IF a > b THEN a ELSE b

\* a * num / den rounded to the nearest unit (half away from zero)
Frac(a, num, den) ==
    LET n == a * num
    IN IF n >= 0 THEN (2 * n + den) \div (2 * den)
                 ELSE -((2 * (-n) + den) \div (2 * den))

RECURSIVE SqrtIter(_, _)
SqrtIter(n, g) ==
    LET h == (g + n \div g) \div 2
    IN IF h >= g THEN g ELSE SqrtIter(n, h)

\* floor of the square root
ISqrt(n) == IF n <= 0 THEN 0 ELSE SqrtIter(n, IF n > 46340 THEN 46340 ELSE n)

\* Math.hypot
hypot(dx, dy) == ISqrt(dx * dx + dy * dy)

----------------------------------------------------------------------------
(* Limbs.                                                                  *)

LimbOrder == <<"leftArm", "rightArm", "leftLeg", "rightLeg">>
LimbNames == {"leftArm", "rightArm", "leftLeg", "rightLeg"}
isArmName(n) == n \in {"leftArm", "rightArm"}
isLeftName(n) == n \in {"leftArm", "leftLeg"}
isLegName(n) == n \in {"leftLeg", "rightLeg"}

\* grabbedAt: null is the record with set = FALSE
NoGrab == [set |-> FALSE, x |-> 0, y |-> 0, stickiness |-> 0]
GrabAt(px, py, s) == [set |-> TRUE, x |-> px, y |-> py, stickiness |-> s]

NewLimb == [x |-> 0, y |-> 0, grabbedAt |-> NoGrab, previousGrab |-> NoGrab,
            wasReleased |-> FALSE, onGround |-> FALSE]

attached(limb) == limb.grabbedAt.set \/ limb.onGround

\* player.limbs built limb by limb, in the order of the object's keys
eachLimb(F(_)) ==
    [leftArm |-> F("leftArm"), rightArm |-> F("rightArm"),
     leftLeg |-> F("leftLeg"), rightLeg |-> F("rightLeg")]

maxReachOf(n) ==
    IF isArmName(n) THEN upperArmLength + lowerArmLength
                    ELSE upperLegLength + lowerLegLength

anchorXOf(p, n) == p.x + (IF isLeftName(n) THEN -Px(10) ELSE Px(10))
anchorYOf(p, n) ==
    IF isArmName(n) THEN p.y - torsoLength \div 2 ELSE p.y + torsoLength \div 2

----------------------------------------------------------------------------
(* Noise field and grabbability.                                           *)
(*                                                                         *)
(* SimplexNoise.noise2D is a deterministic function of its two arguments   *)
(* and of the permutation table that seed() fills once at load.  The model *)
(* keeps that interface: the table is the variable perm, the arguments are *)
(* in thousandths of a noise unit, the result is in hundredths in          *)
(* [-100, 100], it is 0 on the lattice points, and each lattice cell takes *)
(* its gradient sign from the table.                                       *)

noiseGrad(i, j) == ((i * 31 + j * 17 + perm * 7) % 3) - 1

noiseBump(f) == (f * (1000 - f)) \div 2500

noise2D(X, Y) ==
    noiseGrad(X \div 1000, Y \div 1000)
        * ((noiseBump(X % 1000) + noiseBump(Y % 1000)) \div 2)

\* getWallCenter: noise2D(0, y * wallMeanderScale), y * 0.0005 in thousandths
getWallCenter(cv, y) ==
    cv.width \div 2 + Frac(noise2D(0, Frac(y, 5, 100)), wallMeanderAmp, 100)

RECURSIVE IPow(_, _)
IPow(b, k) == IF k = 0 THEN 1 ELSE b * IPow(b, k - 1)

\* Math.pow(v, 1.3) on hundredths
Pow13 ==
    << 0, 0, 1, 1, 2, 2, 3, 3, 4, 4, 5, 6, 6, 7, 8, 8, 9, 10, 11, 12, 12,
       13, 14, 15, 16, 16, 17, 18, 19, 20, 21, 22, 23, 24, 25, 26, 26, 27, 28,
       29, 30, 31, 32, 33, 34, 35, 36, 37, 39, 40, 41, 42, 43, 44, 45, 46,
       47, 48, 49, 50, 51, 53, 54, 55, 56, 57, 58, 59, 61, 62, 63, 64, 65,
       66, 68, 69, 70, 71, 72, 74, 75, 76, 77, 78, 80, 81, 82, 83, 85, 86,
       87, 88, 90, 91, 92, 94, 95, 96, 97, 99, 100 >>

\* one octave of the loop of getGrabbabilityAt: frequency = 0.02 * 1.8^i,
\* n = (1 - |n|)^2, weighted by amplitude 0.5^i (here 2^(octaves-1-i))
ridgedOctave(x, y, i) ==
    LET n == noise2D(Frac(x, 2 * IPow(18, i), IPow(10, i)),
                     Frac(y, 2 * IPow(18, i), IPow(10, i)))
        r == 100 - Abs(n)
    IN IPow(2, noiseOctaves - 1 - i) * Frac(r, r, 100)

RECURSIVE ridgedSum(_, _, _)
ridgedSum(x, y, i) ==
    IF i >= noiseOctaves THEN 0
    ELSE ridgedOctave(x, y, i) + ridgedSum(x, y, i + 1)

\* a rock field whose edge mask fades out without the hard boundary
getGrabbabilityAt_softEdge(cv, x, y) ==
    LET wallCenterX == getWallCenter(cv, y)
        halfWidth == wallWidth \div 2
        distFromCenter == Min(Abs(x - wallCenterX), halfWidth + Px(100))
        normalizedDist == Frac(distFromCenter, 100, halfWidth)
        nd2 == Frac(normalizedDist, normalizedDist, 100)
        wallIntegrity == 100 - Frac(nd2, nd2, 100)
        noiseVal == Frac(ridgedSum(x, y, 0), 1, IPow(2, noiseOctaves) - 1)
    IN Frac(Pow13[noiseVal + 1], wallIntegrity, 100)

\* getGrabbabilityAt(x, y), in hundredths; cv is the global canvas it reads
getGrabbabilityAt(cv, x, y) ==
    LET wallCenterX == getWallCenter(cv, y)
        halfWidth == wallWidth \div 2
        distFromCenter == Min(Abs(x - wallCenterX), halfWidth + Px(100))
    IN IF distFromCenter > halfWidth THEN 0
       ELSE LET normalizedDist == Frac(distFromCenter, 100, halfWidth)
                nd2 == Frac(normalizedDist, normalizedDist, 100)
                wallIntegrity == 100 - Frac(nd2, nd2, 100)
                noiseVal == Frac(ridgedSum(x, y, 0), 1, IPow(2, noiseOctaves) - 1)
            IN Frac(Pow13[noiseVal + 1], wallIntegrity, 100)

----------------------------------------------------------------------------
(* Construction and reset.                                                 *)

standingHeight == torsoLength \div 2 + upperLegLength + lowerLegLength - Px(20)

\* initializeLimbs
initializeLimbs(p, gy) ==
    LET shoulderY == p.y - torsoLength \div 2
    IN [p EXCEPT
          !.limbs["leftArm"].x = p.x - Px(40),
          !.limbs["leftArm"].y = shoulderY + Px(20),
          !.limbs["rightArm"].x = p.x + Px(40),
          !.limbs["rightArm"].y = shoulderY + Px(20),
          !.limbs["leftLeg"].x = p.x - Px(25),
          !.limbs["leftLeg"].y = gy,
          !.limbs["leftLeg"].onGround = TRUE,
          !.limbs["rightLeg"].x = p.x + Px(25),
          !.limbs["rightLeg"].y = gy,
          !.limbs["rightLeg"].onGround = TRUE]

\* resetPlayerState, the player half
resetPlayer(cv, gy) ==
    initializeLimbs([x |-> cv.width \div 2,
                     y |-> gy - standingHeight,
                     velocityY |-> 0,
                     limbs |-> eachLimb(LAMBDA n : NewLimb)], gy)

\* the gameState literal of the declaration and of resetPlayerState
freshGameState(best) ==
    [camera |-> [x |-> 0, y |-> 0],
     selectedLimb |-> "rightArm",
     mousePos |-> [x |-> 0, y |-> 0],
     maxHeight |-> 0,
     bestHeight |-> best,
     stamina |-> maxStamina,
     gameOver |-> FALSE,
     falling |-> FALSE,
     dangling |-> FALSE,
     fallTimer |-> 0,
     gripInstability |-> 0,
     onGround |-> TRUE,
     keysPressed |-> {},
     pitons |-> <<>>]

\* a reset that forgets to empty the piton list
resetGameState_keepsPitons(g) ==
    [freshGameState(g.bestHeight) EXCEPT !.pitons = g.pitons]

\* resetPlayerState, the gameState half: only bestHeight is kept
resetGameState(g) == freshGameState(g.bestHeight)

\* resizeCanvas: CONFIG.groundY = canvas.height - 50
groundYOf(cv) == cv.height - Px(50)

----------------------------------------------------------------------------
(* Input handlers.  Each returns the pair of the two global objects.       *)

Pair(p, g) == [player |-> p, gameState |-> g]

\* a placePiton that drops the new piton when the sequence is full
placePiton_dropsNewest(p, g) ==
    LET pushed == Append(g.pitons, [x |-> p.x, y |-> p.y - Px(20)])
    IN [g EXCEPT !.pitons = IF Len(pushed) > maxPitons
                            THEN SubSeq(pushed, 1, maxPitons)
                            ELSE pushed]

\* placePiton, 1389-1396
placePiton(p, g) ==
    LET pushed == Append(g.pitons, [x |-> p.x, y |-> p.y - Px(20)])
    IN [g EXCEPT !.pitons = IF Len(pushed) > maxPitons THEN Tail(pushed)
                                                        ELSE pushed]

LimbKeys == {"q", "e", "a", "d"}
keyMap(k) ==
    CASE k = "q" -> "leftArm"
      [] k = "e" -> "rightArm"
      [] k = "a" -> "leftLeg"
      [] k = "d" -> "rightLeg"

\* a selection switch that also lets go of the limb selected before
selectLimb_releasesPrevious(p, g, newLimb) ==
    LET previousLimb == g.selectedLimb
        p1 == IF newLimb # previousLimb
              THEN [p EXCEPT !.limbs[previousLimb].wasReleased = FALSE,
                             !.limbs[previousLimb].previousGrab = NoGrab,
                             !.limbs[previousLimb].grabbedAt = NoGrab,
                             !.limbs[previousLimb].onGround = FALSE]
              ELSE p
        limb == p1.limbs[newLimb]
        limb2 ==
            IF newLimb = previousLimb
            THEN \* double press = force release
                 IF attached(limb)
                 THEN [limb EXCEPT !.previousGrab = NoGrab, !.wasReleased = FALSE,
                                   !.grabbedAt = NoGrab, !.onGround = FALSE]
                 ELSE [limb EXCEPT !.previousGrab = NoGrab, !.wasReleased = FALSE]
            ELSE \* selection switch
                 IF limb.grabbedAt.set
                 THEN [limb EXCEPT !.grabbedAt = NoGrab, !.wasReleased = TRUE,
                                   !.previousGrab = NoGrab]
                 ELSE IF limb.onGround
                 THEN [limb EXCEPT !.onGround = FALSE, !.wasReleased = TRUE,
                                   !.previousGrab = NoGrab]
                 ELSE [limb EXCEPT !.previousGrab = NoGrab]
    IN Pair([p1 EXCEPT !.limbs[newLimb] = limb2],
            [g EXCEPT !.selectedLimb = newLimb])

\* a double press that marks the limb as recently released, like a click
selectLimb_softRelease(p, g, newLimb) ==
    LET previousLimb == g.selectedLimb
        p1 == IF newLimb # previousLimb
              THEN [p EXCEPT !.limbs[previousLimb].wasReleased = FALSE,
                             !.limbs[previousLimb].previousGrab = NoGrab]
              ELSE p
        limb == p1.limbs[newLimb]
        limb2 ==
            IF newLimb = previousLimb
            THEN \* double press = force release
                 IF attached(limb)
                 THEN [limb EXCEPT !.previousGrab = NoGrab, !.wasReleased = TRUE,
                                   !.grabbedAt = NoGrab, !.onGround = FALSE]
                 ELSE [limb EXCEPT !.previousGrab = NoGrab, !.wasReleased = FALSE]
            ELSE \* selection switch
                 IF limb.grabbedAt.set
                 THEN [limb EXCEPT !.grabbedAt = NoGrab, !.wasReleased = TRUE,
                                   !.previousGrab = NoGrab]
                 ELSE IF limb.onGround
                 THEN [limb EXCEPT !.onGround = FALSE, !.wasReleased = TRUE,
                                   !.previousGrab = NoGrab]
                 ELSE [limb EXCEPT !.previousGrab = NoGrab]
    IN Pair([p1 EXCEPT !.limbs[newLimb] = limb2],
            [g EXCEPT !.selectedLimb = newLimb])

\* handleKeyDown, the limb-select branch (647-679)
selectLimb(p, g, newLimb) ==
    LET previousLimb == g.selectedLimb
        p1 == IF newLimb # previousLimb
              THEN [p EXCEPT !.limbs[previousLimb].wasReleased = FALSE,
                             !.limbs[previousLimb].previousGrab = NoGrab]
              ELSE p
        limb == p1.limbs[newLimb]
        limb2 ==
            IF newLimb = previousLimb
            THEN \* double press = force release
                 IF attached(limb)
                 THEN [limb EXCEPT !.previousGrab = NoGrab, !.wasReleased = FALSE,
                                   !.grabbedAt = NoGrab, !.onGround = FALSE]
                 ELSE [limb EXCEPT !.previousGrab = NoGrab, !.wasReleased = FALSE]
            ELSE \* selection switch
                 IF limb.grabbedAt.set
                 THEN [limb EXCEPT !.grabbedAt = NoGrab, !.wasReleased = TRUE,
                                   !.previousGrab = NoGrab]
                 ELSE IF limb.onGround
                 THEN [limb EXCEPT !.onGround = FALSE, !.wasReleased = TRUE,
                                   !.previousGrab = NoGrab]
                 ELSE [limb EXCEPT !.previousGrab = NoGrab]
    IN Pair([p1 EXCEPT !.limbs[newLimb] = limb2],
            [g EXCEPT !.selectedLimb = newLimb])

\* Space resumes a falling figure as well as a dangling one
pressKey_resumesFalling(p, g, key) ==
    IF key \in g.keysPressed THEN Pair(p, g)
    ELSE LET g1 == IF key = "s" /\ ~g.falling /\ ~g.gameOver
                   THEN placePiton(p, g) ELSE g
             r == IF key = "Space"
                  THEN IF g1.dangling \/ g1.falling
                       THEN Pair([p EXCEPT !.velocityY = 0],
                                 [g1 EXCEPT !.dangling = FALSE,
                                            !.falling = FALSE])
                       ELSE Pair(p, g1)
                  ELSE IF key \in LimbKeys
                  THEN selectLimb(p, g1, keyMap(key))
                  ELSE Pair(p, g1)
         IN Pair(r.player,
                 [r.gameState EXCEPT !.keysPressed = @ \cup {key}])

\* a Space that stops the torso without looking at the mode
pressKey_resumesUnconditionally(p, g, key) ==
    IF key \in g.keysPressed THEN Pair(p, g)
    ELSE LET g1 == IF key = "s" /\ ~g.falling /\ ~g.gameOver
                   THEN placePiton(p, g) ELSE g
             r == IF key = "Space"
                  THEN Pair([p EXCEPT !.velocityY = 0],
                            [g1 EXCEPT !.dangling = FALSE])
                  ELSE IF key \in LimbKeys
                  THEN selectLimb(p, g1, keyMap(key))
                  ELSE Pair(p, g1)
         IN Pair(r.player,
                 [r.gameState EXCEPT !.keysPressed = @ \cup {key}])

\* a key handler that places a piton in mid-fall too
pressKey_pitonWhileFalling(p, g, key) ==
    IF key \in g.keysPressed THEN Pair(p, g)
    ELSE LET g1 == IF key = "s" /\ ~g.gameOver
                   THEN placePiton(p, g) ELSE g
             r == IF key = "Space"
                  THEN IF g1.dangling
                       THEN Pair([p EXCEPT !.velocityY = 0],
                                 [g1 EXCEPT !.dangling = FALSE])
                       ELSE Pair(p, g1)
                  ELSE IF key \in LimbKeys
                  THEN selectLimb(p, g1, keyMap(key))
                  ELSE Pair(p, g1)
         IN Pair(r.player,
                 [r.gameState EXCEPT !.keysPressed = @ \cup {key}])

\* handleKeyDown while not game over (625-680)
pressKey(p, g, key) ==
    IF key \in g.keysPressed THEN Pair(p, g)
    ELSE LET g1 == IF key = "s" /\ ~g.falling /\ ~g.gameOver
                   THEN placePiton(p, g) ELSE g
             r == IF key = "Space"
                  THEN IF g1.dangling
                       THEN Pair([p EXCEPT !.velocityY = 0],
                                 [g1 EXCEPT !.dangling = FALSE])
                       ELSE Pair(p, g1)
                  ELSE IF key \in LimbKeys
                  THEN selectLimb(p, g1, keyMap(key))
                  ELSE Pair(p, g1)
         IN Pair(r.player,
                 [r.gameState EXCEPT !.keysPressed = @ \cup {key}])

\* handleKeyUp
handleKeyUp(g, key) == [g EXCEPT !.keysPressed = @ \ {key}]

\* handleMouseMove
handleMouseMove(g, clientX, clientY) ==
    [g EXCEPT !.mousePos = [x |-> clientX + g.camera.x,
                            y |-> clientY + g.camera.y]]

\* a click that lets a leg grab above the shoulder line
clickLimb_noShoulderLine(p, g, cv) ==
    LET name == g.selectedLimb
        limb == p.limbs[name]
        stickiness == getGrabbabilityAt(cv, limb.x, limb.y)
    IN IF attached(limb)
       THEN [p EXCEPT !.limbs[name] =
                [limb EXCEPT !.grabbedAt = NoGrab, !.onGround = FALSE,
                             !.wasReleased = TRUE, !.previousGrab = NoGrab]]
       ELSE IF stickiness >= grabThreshold
       THEN [p EXCEPT !.limbs[name] =
                [limb EXCEPT !.grabbedAt = GrabAt(limb.x, limb.y, stickiness),
                             !.wasReleased = FALSE, !.previousGrab = NoGrab]]
       ELSE p

\* handleClick while not game over (694-718)
clickLimb(p, g, cv) ==
    LET name == g.selectedLimb
        limb == p.limbs[name]
        stickiness == getGrabbabilityAt(cv, limb.x, limb.y)
        shoulderY == p.y - torsoLength \div 2
    IN IF attached(limb)
       THEN [p EXCEPT !.limbs[name] =
                [limb EXCEPT !.grabbedAt = NoGrab, !.onGround = FALSE,
                             !.wasReleased = TRUE, !.previousGrab = NoGrab]]
       ELSE IF stickiness >= grabThreshold
               /\ ~(isLegName(name) /\ limb.y < shoulderY)
       THEN [p EXCEPT !.limbs[name] =
                [limb EXCEPT !.grabbedAt = GrabAt(limb.x, limb.y, stickiness),
                             !.wasReleased = FALSE, !.previousGrab = NoGrab]]
       ELSE p

----------------------------------------------------------------------------
(* Per-tick helpers of update().                                           *)

\* constrainLimbToBody: the limb clamped to its maximum reach
constrainLimbToBody(p, limb, name) ==
    LET ax == anchorXOf(p, name)
        ay == anchorYOf(p, name)
        maxReach == maxReachOf(name)
        dx == limb.x - ax
        dy == limb.y - ay
        dist == hypot(dx, dy)
    IN IF dx * dx + dy * dy > maxReach * maxReach
       THEN [limb EXCEPT !.x = ax + Frac(dx, maxReach, dist),
                         !.y = ay + Frac(dy, maxReach, dist)]
       ELSE limb

\* updateSelectedLimb
updateSelectedLimb(p, g) ==
    LET name == g.selectedLimb
        limb == p.limbs[name]
        dx == g.mousePos.x - limb.x
        dy == g.mousePos.y - limb.y
        dist == hypot(dx, dy)
        speed == Min(limbReachSpeed, dist)
        moved == IF dx * dx + dy * dy > Px(5) * Px(5)
                 THEN [limb EXCEPT !.x = @ + Frac(dx, speed, dist),
                                   !.y = @ + Frac(dy, speed, dist)]
                 ELSE limb
    IN IF attached(limb) THEN p
       ELSE [p EXCEPT !.limbs[name] = constrainLimbToBody(p, moved, name)]

\* updateGroundMovement
updateGroundMovement(p, g) ==
    LET moveSpeed == Px(3)
        dx == IF "ArrowLeft" \in g.keysPressed THEN -moveSpeed
              ELSE IF "ArrowRight" \in g.keysPressed THEN moveSpeed
              ELSE 0
    IN IF ~g.onGround \/ dx = 0 THEN p
       ELSE [p EXCEPT
               !.x = @ + dx,
               !.limbs = eachLimb(LAMBDA n :
                   IF (isLegName(n) /\ p.limbs[n].onGround)
                      \/ (isArmName(n) /\ ~p.limbs[n].grabbedAt.set)
                   THEN [p.limbs[n] EXCEPT !.x = @ + dx]
                   ELSE p.limbs[n])]

\* updateFreeLimbs
updateFreeLimbs(p, g) ==
    [p EXCEPT !.limbs = eachLimb(LAMBDA n :
        LET limb == p.limbs[n]
            naturalX == anchorXOf(p, n) + (IF isLeftName(n) THEN -Px(30) ELSE Px(30))
            naturalY == anchorYOf(p, n) + (IF isArmName(n) THEN Px(20) ELSE Px(50))
            drifted == [limb EXCEPT !.x = @ + Frac(naturalX - limb.x, 1, 10),
                                    !.y = @ + Frac(naturalY - limb.y, 1, 10)]
        IN IF n = g.selectedLimb \/ attached(limb) THEN limb
           ELSE constrainLimbToBody(p, drifted, n))]

\* the loop of calculateTotalGrip: a Grabbed limb adds its stickiness, a
\* Grounded limb adds 1.0, and each adds one point
RECURSIVE gripSum(_, _)
gripSum(p, i) ==
    IF i > Len(LimbOrder) THEN 0
    ELSE LET limb == p.limbs[LimbOrder[i]]
         IN (IF limb.grabbedAt.set THEN 10 * limb.grabbedAt.stickiness ELSE 0)
            + (IF limb.onGround THEN 1000 ELSE 0)
            + gripSum(p, i + 1)

RECURSIVE gripPoints(_, _)
gripPoints(p, i) ==
    IF i > Len(LimbOrder) THEN 0
    ELSE LET limb == p.limbs[LimbOrder[i]]
         IN (IF limb.grabbedAt.set THEN 1 ELSE 0)
            + (IF limb.onGround THEN 1 ELSE 0)
            + gripPoints(p, i + 1)

\* a stability bonus that treats four contacts like three
stabilityBonus_threeOrMore(total, points) ==
    IF points >= 3 THEN Frac(total, 13, 10) ELSE total

\* the stability bonus of calculateTotalGrip
stabilityBonus(total, points) ==
    IF points = 3 THEN Frac(total, 13, 10)
    ELSE IF points = 4 THEN Frac(total, 15, 10)
    ELSE total

\* calculateTotalGrip, in thousandths
calculateTotalGrip(p) == stabilityBonus(gripSum(p, 1), gripPoints(p, 1))

\* a camera that follows the torso with no limit at the ground
updateCamera_noLimit(p, g, cv, gy) ==
    LET targetY == p.y - Frac(cv.height, 6, 10)
        cy == g.camera.y + Frac(targetY - g.camera.y, 1, 10)
        targetX == p.x - cv.width \div 2
        cx == g.camera.x + Frac(targetX - g.camera.x, 1, 10)
    IN [g EXCEPT !.camera = [x |-> cx, y |-> cy]]

\* updateCamera, 1174-1187
updateCamera(p, g, cv, gy) ==
    LET targetY == p.y - Frac(cv.height, 6, 10)
        cy == g.camera.y + Frac(targetY - g.camera.y, 1, 10)
        targetX == p.x - cv.width \div 2
        cx == g.camera.x + Frac(targetX - g.camera.x, 1, 10)
    IN [g EXCEPT !.camera =
          [x |-> cx,
           y |-> IF cy + cv.height > gy + Px(100)
                 THEN gy + Px(100) - cv.height ELSE cy]]

----------------------------------------------------------------------------
(* updateBodyPosition: the body solver.                                    *)

legSupported(p, n) == attached(p.limbs[n])
legsAttached(p) == legSupported(p, "leftLeg") \/ legSupported(p, "rightLeg")
armsAttached(p) ==
    p.limbs["leftArm"].grabbedAt.set \/ p.limbs["rightArm"].grabbedAt.set

\* centroid of the supported legs; (0, 0) when there is none
supportPoint(p) ==
    LET l == p.limbs["leftLeg"]
        r == p.limbs["rightLeg"]
        cl == IF attached(l) THEN 1 ELSE 0
        cr == IF attached(r) THEN 1 ELSE 0
        count == cl + cr
    IN IF count = 0 THEN [x |-> 0, y |-> 0]
       ELSE [x |-> Frac(cl * l.x + cr * r.x, 1, count),
             y |-> Frac(cl * l.y + cr * r.y, 1, count)]

\* centroid of the grabbed arms; (0, 0) when there is none
armPoint(p) ==
    LET l == p.limbs["leftArm"]
        r == p.limbs["rightArm"]
        cl == IF l.grabbedAt.set THEN 1 ELSE 0
        cr == IF r.grabbedAt.set THEN 1 ELSE 0
        count == cl + cr
    IN IF count = 0 THEN [x |-> 0, y |-> 0]
       ELSE [x |-> Frac(cl * l.x + cr * r.x, 1, count),
             y |-> Frac(cl * l.y + cr * r.y, 1, count)]

\* stand-up logic (legs attached) and hang logic (arms only), 1091-1123
bodySpring(p) ==
    LET support == supportPoint(p)
        arm == armPoint(p)
        legLength == upperLegLength + lowerLegLength
        idealBodyY == support.y - legLength - torsoLength \div 2 + Px(20)
        targetY == IF armsAttached(p)
                   THEN Min(idealBodyY, arm.y + upperArmLength)
                   ELSE idealBodyY
        targetX == IF armsAttached(p) THEN Frac(support.x + arm.x, 1, 2)
                   ELSE support.x
        hangDist == upperArmLength + lowerArmLength - Px(20)
    IN IF legsAttached(p)
       THEN [p EXCEPT !.x = @ + Frac(targetX - p.x, 1, 10),
                      !.y = @ + Frac(targetY - p.y, 15, 100)]
       ELSE IF armsAttached(p)
       THEN [p EXCEPT !.y = @ + Frac(arm.y + hangDist - p.y, 1, 10),
                      !.x = @ + Frac(arm.x - p.x, 1, 10)]
       ELSE p

\* leaning logic, 1125-1138; support is the leg centroid computed before
\* the spring moved the torso
bodyLean(p, g, support) ==
    LET sel == p.limbs[g.selectedLimb]
        leanAmount == Max(-Px(30), Min(Px(30), Frac(sel.x - p.x, 15, 100)))
        x1 == p.x + Frac(support.x + leanAmount - p.x, 8, 100)
        y1 == IF sel.y < p.y - Px(20)
              THEN p.y - Min(Px(2), Frac(Abs(sel.y - p.y), 2, 100))
              ELSE p.y
    IN IF ~attached(sel) /\ legsAttached(p)
       THEN [p EXCEPT !.x = x1, !.y = y1]
       ELSE p

\* every Grabbed limb is put back on its grab anchor, 1140-1147
snapToGrabs(p) ==
    [p EXCEPT !.limbs = eachLimb(LAMBDA n :
        IF p.limbs[n].grabbedAt.set
        THEN [p.limbs[n] EXCEPT !.x = p.limbs[n].grabbedAt.x,
                                !.y = p.limbs[n].grabbedAt.y]
        ELSE p.limbs[n])]

\* one limb of one relaxation pass: the torso is moved toward an attached
\* limb that is farther than its maximum reach, by the excess
relaxLimb(p, n) ==
    LET limb == p.limbs[n]
        maxLen == maxReachOf(n)
        dx == limb.x - anchorXOf(p, n)
        dy == limb.y - anchorYOf(p, n)
        dist == hypot(dx, dy)
        pullDist == dist - maxLen
    IN IF attached(limb) /\ dist > maxLen
       THEN [p EXCEPT !.x = @ + Frac(dx, pullDist, dist),
                      !.y = @ + Frac(dy, pullDist, dist)]
       ELSE p

relaxPasses == 3

\* the 3 passes over the 4 limbs, in the order of the source's loops
RECURSIVE relax(_, _)
relax(p, k) ==
    IF k >= relaxPasses * Len(LimbOrder) THEN p
    ELSE relax(relaxLimb(p, LimbOrder[(k % Len(LimbOrder)) + 1]), k + 1)

updateBodyPosition(p, g) ==
    relax(snapToGrabs(bodyLean(bodySpring(p), g, supportPoint(p))), 0)

----------------------------------------------------------------------------
(* update(): one simulation tick.  A random draw u stands for the value of *)
(* Math.random() in hundredths; 50 is the centre, where the shake and the  *)
(* wobble vanish.                                                          *)

feetOnGroundOf(p) ==
    p.limbs["leftLeg"].onGround \/ p.limbs["rightLeg"].onGround

\* pointsOfContact of the stamina system, 780-784
pointsOfContact(p) ==
    (IF p.limbs["leftArm"].grabbedAt.set THEN 1 ELSE 0)
    + (IF p.limbs["rightArm"].grabbedAt.set THEN 1 ELSE 0)
    + (IF attached(p.limbs["leftLeg"]) THEN 1 ELSE 0)
    + (IF attached(p.limbs["rightLeg"]) THEN 1 ELSE 0)

\* a dangling branch that still recovers by itself once the figure is at rest
danglingStep_autoRecover(p, g, gy) ==
    LET lastPiton == g.pitons[Len(g.pitons)]
        targetY == lastPiton.y + Px(80)
        p1 == IF Len(g.pitons) > 0
              THEN LET px1 == [p EXCEPT !.x = @ + Frac(lastPiton.x - p.x, 5, 100)]
                   IN IF px1.y > targetY
                      THEN [px1 EXCEPT !.y = @ + Frac(targetY - px1.y, 1, 10),
                                       !.velocityY = 0]
                      ELSE px1
              ELSE p
        p2 == [p1 EXCEPT !.velocityY = Frac(@, 9, 10)]
    IN Pair(p2, [g EXCEPT !.dangling =
                    IF p2.y >= gy - Px(100) \/ p2.velocityY = 0 THEN FALSE ELSE @])

\* a dangling branch in which hanging on the rope restores stamina
danglingStep_restsOnRope(p, g, gy) ==
    LET lastPiton == g.pitons[Len(g.pitons)]
        targetY == lastPiton.y + Px(80)
        p1 == IF Len(g.pitons) > 0
              THEN LET px1 == [p EXCEPT !.x = @ + Frac(lastPiton.x - p.x, 5, 100)]
                   IN IF px1.y > targetY
                      THEN [px1 EXCEPT !.y = @ + Frac(targetY - px1.y, 1, 10),
                                       !.velocityY = 0]
                      ELSE px1
              ELSE p
        p2 == [p1 EXCEPT !.velocityY = Frac(@, 9, 10)]
    IN Pair(p2, [g EXCEPT !.dangling = IF p2.y >= gy - Px(100) THEN FALSE ELSE @,
                          !.stamina = Min(maxStamina, @ + staminaRegen)])

\* the dangling branch of update, 745-773 (the trailing updateCamera is
\* applied by update)
danglingStep(p, g, gy) ==
    LET lastPiton == g.pitons[Len(g.pitons)]
        targetY == lastPiton.y + Px(80)
        p1 == IF Len(g.pitons) > 0
              THEN LET px1 == [p EXCEPT !.x = @ + Frac(lastPiton.x - p.x, 5, 100)]
                   IN IF px1.y > targetY
                      THEN [px1 EXCEPT !.y = @ + Frac(targetY - px1.y, 1, 10),
                                       !.velocityY = 0]
                      ELSE px1
              ELSE p
        p2 == [p1 EXCEPT !.velocityY = Frac(@, 9, 10)]
    IN Pair(p2, [g EXCEPT !.dangling = IF p2.y >= gy - Px(100) THEN FALSE ELSE @])

\* a stamina system that regenerates without the cap
staminaStep_noCap(p, g) ==
    IF pointsOfContact(p) = 4 \/ feetOnGroundOf(p)
    THEN [g EXCEPT !.stamina = @ + staminaRegen]
    ELSE [g EXCEPT !.stamina = Max(0, @ - staminaDepletion)]

\* stamina system, 786-792
staminaStep(p, g) ==
    IF pointsOfContact(p) = 4 \/ feetOnGroundOf(p)
    THEN [g EXCEPT !.stamina = Min(maxStamina, @ + staminaRegen)]
    ELSE [g EXCEPT !.stamina = Max(0, @ - staminaDepletion)]

releaseGrab(limb) == [limb EXCEPT !.grabbedAt = NoGrab, !.wasReleased = TRUE]

\* a muscle failure that waits for the stamina to go below zero
muscleFailure_belowZero(p, g) ==
    IF g.stamina < 0
    THEN [p EXCEPT !.limbs = eachLimb(LAMBDA n :
            IF isArmName(n) /\ p.limbs[n].grabbedAt.set
            THEN releaseGrab(p.limbs[n]) ELSE p.limbs[n])]
    ELSE p

\* muscle failure, 794-806
muscleFailure(p, g) ==
    IF g.stamina <= 0
    THEN [p EXCEPT !.limbs = eachLimb(LAMBDA n :
            IF isArmName(n) /\ p.limbs[n].grabbedAt.set
            THEN releaseGrab(p.limbs[n]) ELSE p.limbs[n])]
    ELSE p

\* the Grabbed limb the slip releases: lowest stickiness, the first in the
\* object's key order among equals (the sort is stable)
RECURSIVE weakestFrom(_, _, _)
weakestFrom(p, i, best) ==
    IF i > Len(LimbOrder) THEN best
    ELSE LET n == LimbOrder[i]
             better == p.limbs[n].grabbedAt.set
                       /\ (best = "none"
                           \/ p.limbs[n].grabbedAt.stickiness
                                < p.limbs[best].grabbedAt.stickiness)
         IN weakestFrom(p, i + 1, IF better THEN n ELSE best)

\* a slip whose sort is descending: the strongest hold lets go
weakestLimb_sortedDescending(p) ==
    LET held == {n \in LimbNames : p.limbs[n].grabbedAt.set}
    IN IF held = {} THEN "none"
       ELSE CHOOSE n \in held : \A m \in held :
               p.limbs[n].grabbedAt.stickiness >= p.limbs[m].grabbedAt.stickiness

weakestLimb(p) == weakestFrom(p, 1, "none")

\* the shake of the slipping logic, 812-815; u is the random draw
shakeOf(inst, u) == Frac((u - 50) * inst, 30, 100 * maxGripInstability)

\* a slip tier that tires whenever no foot is grounded, whatever the grip
slipStep_tiresOffGround(p, g, totalGrip, feetOnGround, ux, uy) ==
    IF totalGrip < playerWeight \/ ~feetOnGround
    THEN LET inst == g.gripInstability + 1
             \* shake = inst / maxGripInstability * 3 px, times (u - 0.5)
             p1 == [p EXCEPT !.x = @ + shakeOf(inst, ux),
                             !.y = @ + shakeOf(inst, uy)]
             weakest == weakestLimb(p1)
         IN IF inst > maxGripInstability /\ weakest # "none"
            THEN [player |-> [p1 EXCEPT !.limbs[weakest] = releaseGrab(@)],
                  gameState |-> [g EXCEPT !.gripInstability =
                                              maxGripInstability \div 2],
                  slipped |-> TRUE]
            ELSE [player |-> p1,
                  gameState |-> [g EXCEPT !.gripInstability = inst],
                  slipped |-> FALSE]
    ELSE [player |-> p,
          gameState |-> IF g.gripInstability > 0
                        THEN [g EXCEPT !.gripInstability = @ - 2] ELSE g,
          slipped |-> FALSE]

\* a slip that leaves the accumulator at three quarters of the ceiling
slipStep_resetsHigh(p, g, totalGrip, feetOnGround, ux, uy) ==
    IF totalGrip < playerWeight /\ ~feetOnGround
    THEN LET inst == g.gripInstability + 1
             p1 == [p EXCEPT !.x = @ + shakeOf(inst, ux),
                             !.y = @ + shakeOf(inst, uy)]
             weakest == weakestLimb(p1)
         IN IF inst > maxGripInstability /\ weakest # "none"
            THEN [player |-> [p1 EXCEPT !.limbs[weakest] = releaseGrab(@)],
                  gameState |-> [g EXCEPT !.gripInstability =
                                              (3 * maxGripInstability) \div 4],
                  slipped |-> TRUE]
            ELSE [player |-> p1,
                  gameState |-> [g EXCEPT !.gripInstability = inst],
                  slipped |-> FALSE]
    ELSE [player |-> p,
          gameState |-> IF g.gripInstability > 0
                        THEN [g EXCEPT !.gripInstability = @ - 2] ELSE g,
          slipped |-> FALSE]

\* slipping logic, 808-842
slipStep(p, g, totalGrip, feetOnGround, ux, uy) ==
    IF totalGrip < playerWeight /\ ~feetOnGround
    THEN LET inst == g.gripInstability + 1
             \* shake = inst / maxGripInstability * 3 px, times (u - 0.5)
             p1 == [p EXCEPT !.x = @ + shakeOf(inst, ux),
                             !.y = @ + shakeOf(inst, uy)]
             weakest == weakestLimb(p1)
         IN IF inst > maxGripInstability /\ weakest # "none"
            THEN [player |-> [p1 EXCEPT !.limbs[weakest] = releaseGrab(@)],
                  gameState |-> [g EXCEPT !.gripInstability =
                                              maxGripInstability \div 2],
                  slipped |-> TRUE]
            ELSE [player |-> p1,
                  gameState |-> [g EXCEPT !.gripInstability = inst],
                  slipped |-> FALSE]
    ELSE [player |-> p,
          gameState |-> IF g.gripInstability > 0
                        THEN [g EXCEPT !.gripInstability = @ - 2] ELSE g,
          slipped |-> FALSE]

\* a rope catch that arrests the fall whatever the speed
ropeCatch_alwaysArrests(p, g) ==
    LET lastPiton == g.pitons[Len(g.pitons)]
    IN IF Len(g.pitons) > 0 /\ p.y > lastPiton.y
          /\ p.y - lastPiton.y > Px(80)
       THEN [player |-> [p EXCEPT !.y = lastPiton.y + Px(80),
                                  !.velocityY = 0],
             gameState |-> [g EXCEPT !.falling = FALSE,
                                     !.dangling = TRUE,
                                     !.fallTimer = 0],
             caught |-> TRUE]
       ELSE [player |-> p, gameState |-> g, caught |-> FALSE]

\* a rope catch that enters Dangling without ending the fall
ropeCatch_keepsFalling(p, g) ==
    LET lastPiton == g.pitons[Len(g.pitons)]
        v == Frac(p.velocityY, -3, 10)
    IN IF Len(g.pitons) > 0 /\ p.y > lastPiton.y
          /\ p.y - lastPiton.y > Px(80)
       THEN IF 3 * Abs(p.velocityY) < 10 * Px(1)
            THEN [player |-> [p EXCEPT !.y = lastPiton.y + Px(80),
                                       !.velocityY = 0],
                  gameState |-> [g EXCEPT !.dangling = TRUE,
                                          !.fallTimer = 0],
                  caught |-> TRUE]
            ELSE [player |-> [p EXCEPT !.y = lastPiton.y + Px(80),
                                       !.velocityY = v],
                  gameState |-> g,
                  caught |-> TRUE]
       ELSE [player |-> p, gameState |-> g, caught |-> FALSE]

\* rope catch, 861-901: p has already moved by its velocity
ropeCatch(p, g) ==
    LET lastPiton == g.pitons[Len(g.pitons)]
        v == Frac(p.velocityY, -3, 10)
    IN IF Len(g.pitons) > 0 /\ p.y > lastPiton.y
          /\ p.y - lastPiton.y > Px(80)
       THEN IF 3 * Abs(p.velocityY) < 10 * Px(1)
            THEN [player |-> [p EXCEPT !.y = lastPiton.y + Px(80),
                                       !.velocityY = 0],
                  gameState |-> [g EXCEPT !.falling = FALSE,
                                          !.dangling = TRUE,
                                          !.fallTimer = 0],
                  caught |-> TRUE]
            ELSE [player |-> [p EXCEPT !.y = lastPiton.y + Px(80),
                                       !.velocityY = v],
                  gameState |-> g,
                  caught |-> TRUE]
       ELSE [player |-> p, gameState |-> g, caught |-> FALSE]

\* a fall with no rope
fallStep_noRope(p, g) ==
    LET v == Min(p.velocityY + gravity, maxFallSpeed)
        p1 == [p EXCEPT !.velocityY = v, !.y = @ + v]
        g1 == [g EXCEPT !.falling = TRUE, !.onGround = FALSE]
    IN [player |-> [p1 EXCEPT !.limbs = eachLimb(LAMBDA n :
                       IF ~p1.limbs[n].grabbedAt.set
                       THEN [p1.limbs[n] EXCEPT !.y = @ + v]
                       ELSE p1.limbs[n])],
        gameState |-> g1,
        caught |-> FALSE]

\* the fall once the grace period is over, 853-908
fallStep(p, g) ==
    LET v == Min(p.velocityY + gravity, maxFallSpeed)
        p1 == [p EXCEPT !.velocityY = v, !.y = @ + v]
        g1 == [g EXCEPT !.falling = TRUE, !.onGround = FALSE]
        c == ropeCatch(p1, g1)
        vy == c.player.velocityY
    IN [player |-> [c.player EXCEPT !.limbs = eachLimb(LAMBDA n :
                       IF ~c.player.limbs[n].grabbedAt.set
                       THEN [c.player.limbs[n] EXCEPT !.y = @ + vy]
                       ELSE c.player.limbs[n])],
        gameState |-> c.gameState,
        caught |-> c.caught]

\* a ground collision that is skipped during the grace period
groundCollision_onlyWhenFalling(p, g, gy) ==
    LET feetY == p.y + torsoLength \div 2 + upperLegLength + lowerLegLength
        land(limb) == [limb EXCEPT !.y = gy, !.onGround = TRUE]
    IN IF g.falling /\ feetY >= gy
       THEN [player |-> [p EXCEPT
                !.y = gy - torsoLength \div 2 - upperLegLength
                         - lowerLegLength + Px(50),
                !.velocityY = 0,
                !.limbs = eachLimb(LAMBDA n :
                    IF isLegName(n) /\ g.selectedLimb # n
                    THEN land(p.limbs[n]) ELSE p.limbs[n])],
             gameState |-> [g EXCEPT !.falling = FALSE, !.fallTimer = 0,
                                     !.onGround = TRUE],
             landed |-> TRUE]
       ELSE [player |-> p, gameState |-> g, landed |-> FALSE]

\* ground collision, 910-927
groundCollision(p, g, gy) ==
    LET feetY == p.y + torsoLength \div 2 + upperLegLength + lowerLegLength
        land(limb) == [limb EXCEPT !.y = gy, !.onGround = TRUE]
    IN IF feetY >= gy
       THEN [player |-> [p EXCEPT
                !.y = gy - torsoLength \div 2 - upperLegLength
                         - lowerLegLength + Px(50),
                !.velocityY = 0,
                !.limbs = eachLimb(LAMBDA n :
                    IF isLegName(n) /\ g.selectedLimb # n
                    THEN land(p.limbs[n]) ELSE p.limbs[n])],
             gameState |-> [g EXCEPT !.falling = FALSE, !.fallTimer = 0,
                                     !.onGround = TRUE],
             landed |-> TRUE]
       ELSE [player |-> p, gameState |-> g, landed |-> FALSE]

\* the hard tier, 845-927; u is the random draw of the wobble
wobbleOf(u) == Frac(u - 50, 4, 10)

\* a grace period that ends one tick early
hardTier_graceEndsEarly(p, g, gy, ux, uy) ==
    LET g1 == [g EXCEPT !.fallTimer = @ + 1]
        p1 == [p EXCEPT !.x = @ + wobbleOf(ux), !.y = @ + wobbleOf(uy)]
        over == g1.fallTimer >= fallGracePeriod
        f == IF over THEN fallStep(p1, g1)
             ELSE [player |-> p1, gameState |-> g1, caught |-> FALSE]
        c == groundCollision(f.player, f.gameState, gy)
    IN [player |-> c.player, gameState |-> c.gameState,
        gravity |-> over, caught |-> f.caught, landed |-> c.landed,
        solver |-> FALSE]

\* a hard tier without the ground collision
hardTier_noLanding(p, g, gy, ux, uy) ==
    LET g1 == [g EXCEPT !.fallTimer = @ + 1]
        p1 == [p EXCEPT !.x = @ + wobbleOf(ux), !.y = @ + wobbleOf(uy)]
        over == g1.fallTimer > fallGracePeriod
        f == IF over THEN fallStep(p1, g1)
             ELSE [player |-> p1, gameState |-> g1, caught |-> FALSE]
    IN [player |-> f.player, gameState |-> f.gameState,
        gravity |-> over, caught |-> f.caught, landed |-> FALSE,
        solver |-> FALSE]

\* a hard tier that runs the body solver while the grace period lasts
hardTier_solvesInGrace(p, g, gy, ux, uy) ==
    LET g1 == [g EXCEPT !.fallTimer = @ + 1]
        p1 == [p EXCEPT !.x = @ + wobbleOf(ux), !.y = @ + wobbleOf(uy)]
        over == g1.fallTimer > fallGracePeriod
        f == IF over THEN fallStep(p1, g1)
             ELSE [player |-> updateBodyPosition(p1, g1), gameState |-> g1,
                   caught |-> FALSE]
        c == groundCollision(f.player, f.gameState, gy)
    IN [player |-> c.player, gameState |-> c.gameState,
        gravity |-> over, caught |-> f.caught, landed |-> c.landed,
        solver |-> ~over]

\* the if branch of the falling logic, 844-927
hardTier(p, g, gy, ux, uy) ==
    LET g1 == [g EXCEPT !.fallTimer = @ + 1]
        p1 == [p EXCEPT !.x = @ + wobbleOf(ux), !.y = @ + wobbleOf(uy)]
        over == g1.fallTimer > fallGracePeriod
        f == IF over THEN fallStep(p1, g1)
             ELSE [player |-> p1, gameState |-> g1, caught |-> FALSE]
        c == groundCollision(f.player, f.gameState, gy)
    IN [player |-> c.player, gameState |-> c.gameState,
        gravity |-> over, caught |-> f.caught, landed |-> c.landed,
        solver |-> FALSE]

\* the else branch of the falling logic ("Recovered Grip"), 928-939
recoveredGrip(p, g, gy, feetOnGround) ==
    LET g1 == [g EXCEPT !.falling = FALSE, !.fallTimer = 0,
                        !.onGround = IF feetOnGround THEN TRUE ELSE @]
        p1 == [p EXCEPT !.velocityY = 0,
                  !.limbs = eachLimb(LAMBDA n :
                      IF feetOnGround /\ isLegName(n) /\ p.limbs[n].onGround
                      THEN [p.limbs[n] EXCEPT !.y = gy] ELSE p.limbs[n])]
    IN [player |-> updateBodyPosition(p1, g1), gameState |-> g1,
        gravity |-> FALSE, caught |-> FALSE, landed |-> FALSE,
        solver |-> TRUE]

\* height bookkeeping, 945-948, in metres (50 px per metre)
currentHeightOf(p, gy) ==
    Max(0, (gy - p.y - upperLegLength - lowerLegLength - torsoLength \div 2)
              \div Px(50))

\* a height record that follows the current height down as well as up
heightStep_followsCurrent(p, g, gy) ==
    LET m == currentHeightOf(p, gy)
    IN [g EXCEPT !.maxHeight = m, !.bestHeight = Max(@, m)]

heightStep(p, g, gy) ==
    LET m == Max(g.maxHeight, currentHeightOf(p, gy))
    IN [g EXCEPT !.maxHeight = m, !.bestHeight = Max(@, m)]

\* a game-over test without the margin below the viewport
gameOverStep_noMargin(p, g, cv) ==
    IF p.y > cv.height THEN [g EXCEPT !.gameOver = TRUE] ELSE g

\* line 950 and triggerGameOver
gameOverStep(p, g, cv) ==
    IF p.y > cv.height + Px(500) THEN [g EXCEPT !.gameOver = TRUE] ELSE g

\* a hard tier that starts as soon as the grip is below the player's weight
climbingStep_hardBelowWeight(p, g, cv, gy, totalGrip, ux, uy) ==
    LET feetOnGround == feetOnGroundOf(p)
        g1 == staminaStep(p, g)
        p1 == muscleFailure(p, g1)
        s == slipStep(p1, g1, totalGrip, feetOnGround, ux, uy)
        hard == totalGrip < playerWeight /\ ~feetOnGround
        h == IF hard THEN hardTier(s.player, s.gameState, gy, ux, uy)
             ELSE recoveredGrip(s.player, s.gameState, gy, feetOnGround)
        gc == updateCamera(h.player,
                           updateCamera(h.player, h.gameState, cv, gy), cv, gy)
        gh == heightStep(h.player, gc, gy)
    IN [player |-> h.player,
        gameState |-> gameOverStep(h.player, gh, cv),
        branch |-> IF hard THEN "hard" ELSE "stable",
        gravity |-> h.gravity, caught |-> h.caught, landed |-> h.landed,
        slipped |-> s.slipped, solver |-> h.solver,
        random |-> hard \/ (totalGrip < playerWeight /\ ~feetOnGround)]

\* a tick that computes the grip again after the muscle failure
climbingStep_gripAfterFailure(p, g, cv, gy, totalGrip, ux, uy) ==
    LET feetOnGround == feetOnGroundOf(p)
        g1 == staminaStep(p, g)
        p1 == muscleFailure(p, g1)
        grip == calculateTotalGrip(p1)
        s == slipStep(p1, g1, grip, feetOnGround, ux, uy)
        hard == grip < minGripToHold /\ ~feetOnGround
        h == IF hard THEN hardTier(s.player, s.gameState, gy, ux, uy)
             ELSE recoveredGrip(s.player, s.gameState, gy, feetOnGround)
        gc == updateCamera(h.player,
                           updateCamera(h.player, h.gameState, cv, gy), cv, gy)
        gh == heightStep(h.player, gc, gy)
    IN [player |-> h.player,
        gameState |-> gameOverStep(h.player, gh, cv),
        branch |-> IF hard THEN "hard" ELSE "stable",
        gravity |-> h.gravity, caught |-> h.caught, landed |-> h.landed,
        slipped |-> s.slipped, solver |-> h.solver,
        random |-> hard \/ (grip < playerWeight /\ ~feetOnGround)]

\* the part of update after the dangling branch, 775-950
climbingStep(p, g, cv, gy, totalGrip, ux, uy) ==
    LET feetOnGround == feetOnGroundOf(p)
        g1 == staminaStep(p, g)
        p1 == muscleFailure(p, g1)
        s == slipStep(p1, g1, totalGrip, feetOnGround, ux, uy)
        hard == totalGrip < minGripToHold /\ ~feetOnGround
        h == IF hard THEN hardTier(s.player, s.gameState, gy, ux, uy)
             ELSE recoveredGrip(s.player, s.gameState, gy, feetOnGround)
        gc == updateCamera(h.player,
                           updateCamera(h.player, h.gameState, cv, gy), cv, gy)
        gh == heightStep(h.player, gc, gy)
    IN [player |-> h.player,
        gameState |-> gameOverStep(h.player, gh, cv),
        branch |-> IF hard THEN "hard" ELSE "stable",
        gravity |-> h.gravity, caught |-> h.caught, landed |-> h.landed,
        slipped |-> s.slipped, solver |-> h.solver,
        random |-> hard \/ (totalGrip < playerWeight /\ ~feetOnGround)]

NoFlags(p, g, b) ==
    [player |-> p, gameState |-> g, branch |-> b,
     gravity |-> FALSE, caught |-> FALSE, landed |-> FALSE,
     slipped |-> FALSE, solver |-> FALSE, random |-> FALSE]

\* update()
update(p, g, cv, gy, ux, uy) ==
    IF g.gameOver THEN NoFlags(p, g, "gameover")
    ELSE LET p3 == updateFreeLimbs(
                       updateGroundMovement(updateSelectedLimb(p, g), g), g)
             totalGrip == calculateTotalGrip(p3)
         IN IF g.dangling
            THEN LET d == danglingStep(p3, g, gy)
                 IN NoFlags(d.player,
                            updateCamera(d.player, d.gameState, cv, gy),
                            "dangling")
            ELSE climbingStep(p3, g, cv, gy, totalGrip, ux, uy)

\* floor(a / chunkSize) for any sign of a
chunkIndex(a) == a \div chunkSize

\* a draw that never deletes a chunk
draw_noCleanup(cache, cameraY, viewportHeight) ==
    LET startChunkY == chunkIndex(cameraY)
        endChunkY == chunkIndex(cameraY + viewportHeight)
    IN cache \cup (startChunkY .. endChunkY)

\* WallRenderer.draw: the cache after a draw at cameraY
draw(cache, cameraY, viewportHeight) ==
    LET startChunkY == chunkIndex(cameraY)
        endChunkY == chunkIndex(cameraY + viewportHeight)
    IN {k \in cache \cup (startChunkY .. endChunkY) :
            ~(k < startChunkY - 2 \/ k > endChunkY + 2)}

\* getChunk, 221-226: the chunks generateChunk builds when chunkY is asked for
getChunk(cache, chunkY) == IF chunkY \notin cache THEN {chunkY} ELSE {}

\* the chunks built by the loop of draw, 297-302
drawn(cache, cameraY, viewportHeight) ==
    UNION {getChunk(cache, cy) :
              cy \in chunkIndex(cameraY) .. chunkIndex(cameraY + viewportHeight)}

Mode(g) ==
    IF g.gameOver THEN "GameOver"
    ELSE IF g.dangling THEN "Dangling"
    ELSE IF g.falling THEN "Falling"
    ELSE "Active"


----------------------------------------------------------------------------
(* The program's globals as one record, and its handlers as functions of   *)
(* that record.                                                            *)

\* the globals as declared at load, before init() has run
declared ==
    [canvas |-> [width |-> 0, height |-> 0],
     groundY |-> 0,
     player |-> [x |-> 0, y |-> 0, velocityY |-> 0,
                 limbs |-> eachLimb(LAMBDA n : NewLimb)],
     gameState |-> freshGameState(0),
     chunks |-> {}]

\* resizeCanvas: the new window size, the new ground line, the cache cleared
resizeCanvas(w, size) ==
    [w EXCEPT !.canvas = size, !.groundY = groundYOf(size), !.chunks = {}]

\* a reset that places the limbs before it moves the torso to the start
resetPlayerState_limbsBeforeTorso(w) ==
    LET fresh == resetPlayer(w.canvas, w.groundY)
        placed == initializeLimbs([fresh EXCEPT !.x = w.player.x,
                                                !.y = w.player.y], w.groundY)
    IN [w EXCEPT !.player = [fresh EXCEPT !.limbs = placed.limbs],
                 !.gameState = resetGameState(w.gameState)]

\* resetPlayerState, 563-597
resetPlayerState(w) ==
    [w EXCEPT !.player = resetPlayer(w.canvas, w.groundY),
              !.gameState = resetGameState(w.gameState)]

\* init(): resizeCanvas, then resetPlayerState
init(size) == resetPlayerState(resizeCanvas(declared, size))

\* restartGame: the cache is cleared, then resetPlayerState
restartGame(w) == resetPlayerState([w EXCEPT !.chunks = {}])

\* a key handler that forgets the game-over guard
handleKeyDown_noGuard(w, key) ==
    LET r == pressKey(w.player, w.gameState, key)
    IN [w EXCEPT !.player = r.player, !.gameState = r.gameState]

\* handleKeyDown
handleKeyDown(w, key) ==
    IF w.gameState.gameOver
    THEN IF key = "Space" THEN restartGame(w) ELSE w
    ELSE LET r == pressKey(w.player, w.gameState, key)
         IN [w EXCEPT !.player = r.player, !.gameState = r.gameState]

\* handleClick
handleClick(w) ==
    IF w.gameState.gameOver THEN w
    ELSE [w EXCEPT !.player = clickLimb(w.player, w.gameState, w.canvas)]

\* the globals after one frame whose update() returned r
frame(w, r) ==
    [world |-> [w EXCEPT !.player = r.player,
                         !.gameState = r.gameState,
                         !.chunks = draw(w.chunks, r.gameState.camera.y,
                                         w.canvas.height)],
     flags |-> r]

\* gameLoop: update(), then render(), which draws the wall through the cache
gameLoop(w, ux, uy) ==
    frame(w, update(w.player, w.gameState, w.canvas, w.groundY, ux, uy))

----------------------------------------------------------------------------
(* Bounds of the model and the inputs it enumerates.                       *)

MaxInputs == 1      \* input events after the opening play
MaxDraws == 1       \* frames whose random draws are off centre
MaxFrames == 12     \* frames after the opening play

StartSize == [width |-> Px(800), height |-> Px(1000)]
TallSize == [width |-> Px(800), height |-> Px(1400)]
ShortSize == [width |-> Px(800), height |-> Px(300)]
Sizes == {StartSize, TallSize, ShortSize}
NarrowSize == [width |-> Px(400), height |-> Px(1000)]
TowerSize == [width |-> Px(800), height |-> Px(3840)]
Keys == {"q", "e", "a", "d", "s", "Space", "ArrowLeft", "ArrowRight"}
\* pointer positions on the canvas (client coordinates)
Pointers == {[x |-> Px(400), y |-> Px(300)], [x |-> Px(440), y |-> Px(420)]}
OffCentre == {5, 95}

----------------------------------------------------------------------------
(* Events.  A behaviour opens with a play: a fixed sequence of input       *)
(* events and frames, as a player gives them from the constructed state.   *)
(* After the play every input the sets above offer may arrive between any  *)
(* two frames, within the budget.                                          *)

press(key) == [op |-> "keydown", key |-> key]
release(key) == [op |-> "keyup", key |-> key]
point(x, y) == [op |-> "mousemove", x |-> x, y |-> y]
click == [op |-> "click"]
resize(size) == [op |-> "resize", size |-> size]
restart == [op |-> "restart"]
wait(n) == [op |-> "frames", n |-> n]

\* both arms take a hold above the start and both feet leave the ground
hangPlay ==
    << wait(1), point(Px(410), Px(750)), wait(12), click,
       press("q"), release("q"), point(Px(410), Px(740)), wait(12), click,
       press("a"), release("a"), press("d"), release("d") >>

\* the hanging figure's window shrinks: the torso is far below the viewport
gameOverPlay == hangPlay \o << wait(3), resize(ShortSize), wait(1) >>

\* a piton is placed, the window grows (the ground line drops), the stronger
\* arm lets go and the grace period runs
fallPlay ==
    hangPlay \o << wait(30), press("s"), release("s"), resize(TallSize),
                  wait(10), press("e"), release("e"), wait(56) >>

\* the same, up to the frames before the rope first goes taut
bouncePlay == fallPlay \o << wait(21) >>

\* the same, up to the frames before the rope goes taut again
danglePlay == bouncePlay \o << wait(11) >>

\* the left leg takes a weak hold just above the ground
legPlay ==
    << wait(1), press("a"), release("a"), point(Px(400), Px(830)), wait(8),
       click >>

\* the falling figure is reset, twice in a row
againPlay == fallPlay \o << restart, restart >>

\* the right arm reaches a hold, the window is narrowed (the strip's centre
\* line moves left with the middle of the canvas), then the arm grabs
narrowPlay ==
    << wait(1), point(Px(410), Px(750)), wait(12), resize(NarrowSize), click >>

\* the hanging figure's window grows to a tall screen: the camera travels up
\* by more than two chunks to keep the torso at 60% of the viewport
towerPlay == hangPlay \o << resize(TowerSize), wait(64) >>

Plays ==
    {<<>>, hangPlay, gameOverPlay, fallPlay, bouncePlay, danglePlay, legPlay,
     againPlay, narrowPlay, towerPlay}

\* both arms and the left leg hold, the right foot is lifted: three holds
\* carry the weight
tripodPlay ==
    SubSeq(hangPlay, 1, 11) \o
    << point(Px(400), Px(830)), wait(12), click, press("d"), release("d") >>

\* the same, held until the stamina is nearly spent
exhaustPlay == tripodPlay \o << wait(328) >>

\* the figure hangs by both arms until the grip is about to slip
slipPlay == hangPlay \o << wait(115) >>

\* the hanging figure lets go of both holds over a dropped ground line and
\* falls with no hold at all
tumblePlay ==
    hangPlay \o << wait(40), resize(TallSize), press("e"), release("e"),
                  press("q"), release("q"), wait(76) >>

\* a piton is placed and the figure walks one frame to the right
pitonStep == << press("s"), release("s"), wait(1) >>

\* ten pitons are placed along the ground
pitonPlay ==
    << press("ArrowRight") >> \o pitonStep \o pitonStep \o pitonStep \o
    pitonStep \o pitonStep \o pitonStep \o pitonStep \o pitonStep \o
    pitonStep \o pitonStep

\* the hanging figure moves its free right leg onto rock below the
\* shoulder line, and its window shrinks: game over
rockOverPlay ==
    hangPlay \o << point(Px(400), Px(830)), wait(12), resize(ShortSize),
                  wait(1) >>

\* the same, past the first slip and up to the frames before the second
slipAgainPlay == slipPlay \o << wait(62) >>

\* the left leg holds weak rock just above the ground, the right leg is
\* lifted, and the frame's ground collision stands the figure on the leg
\* that holds
standOnHoldPlay == legPlay \o << press("d"), release("d"), wait(1) >>

\* the plays about holds, stamina and pitons
HoldPlays ==
    {exhaustPlay, slipPlay, tumblePlay, pitonPlay, legPlay, rockOverPlay,
     slipAgainPlay, standOnHoldPlay}

\* the events of kind op that may happen now
Offered(op, free) ==
    IF opening # <<>>
    THEN IF Head(opening).op = op THEN {Head(opening)} ELSE {}
    ELSE free

\* an input event is taken from the play, or from the budget after it
TakeInput ==
    IF opening # <<>>
    THEN opening' = Tail(opening) /\ budget' = budget
    ELSE /\ budget.inputs > 0
         /\ budget' = [budget EXCEPT !.inputs = @ - 1]
         /\ opening' = opening

\* a frame is taken from the play, or from the budget after it
TakeFrame ==
    IF opening # <<>>
    THEN /\ opening' = IF Head(opening).n > 1
                       THEN <<wait(Head(opening).n - 1)>> \o Tail(opening)
                       ELSE Tail(opening)
         /\ budget' = budget
    ELSE /\ budget.frames > 0
         /\ budget' = [budget EXCEPT !.frames = @ - 1]
         /\ opening' = opening

----------------------------------------------------------------------------
(* Steps.                                                                  *)

Globals ==
    [canvas |-> canvas, groundY |-> groundY, player |-> player,
     gameState |-> gameState, chunks |-> chunks]

Become(w) ==
    /\ canvas' = w.canvas
    /\ groundY' = w.groundY
    /\ player' = w.player
    /\ gameState' = w.gameState
    /\ chunks' = w.chunks
    /\ perm' = perm

\* the ticks counted after a forced slip; more count as this many
SlipWindow == 70

Step(op, key, r) ==
    [op |-> op, key |-> key, from |-> Mode(gameState),
     prev |-> last.op, selected |-> gameState.selectedLimb,
     wasHeld |-> attached(player.limbs[gameState.selectedLimb]),
     branch |-> r.branch,
     gravity |-> r.gravity, caught |-> r.caught, landed |-> r.landed,
     slipped |-> r.slipped, solver |-> r.solver,
     sinceSlip |-> IF op # "tick" THEN last.sinceSlip
                   ELSE IF r.slipped THEN 0
                   ELSE IF last.sinceSlip < 0 THEN -1
                   ELSE Min(last.sinceSlip + 1, SlipWindow),
     slipGap |-> IF op = "tick" /\ r.slipped /\ last.sinceSlip >= 0
                 THEN Min(last.sinceSlip + 1, SlipWindow)
                 ELSE last.slipGap]

InputStep(op, key) == Step(op, key, NoFlags(player, gameState, "none"))

\* the state after init(), with each opening play of a set and the budget
\* b for what follows the play
StartWith(plays, b) ==
    /\ perm = 0
    /\ \E w \in {init(StartSize)} :
          /\ canvas = w.canvas
          /\ groundY = w.groundY
          /\ player = w.player
          /\ gameState = w.gameState
          /\ chunks = w.chunks
    /\ last = [op |-> "init", key |-> "", from |-> "none",
               prev |-> "none", selected |-> "none", wasHeld |-> FALSE,
               branch |-> "none",
               gravity |-> FALSE, caught |-> FALSE, landed |-> FALSE,
               slipped |-> FALSE, solver |-> FALSE, sinceSlip |-> -1,
               slipGap |-> -1]
    /\ opening \in plays
    /\ budget = b

Start(plays) ==
    StartWith(plays, [inputs |-> MaxInputs, draws |-> MaxDraws,
                      frames |-> MaxFrames])

Init == Start(Plays)

InitHolds == Start(HoldPlays)

TickWith(ux, uy) ==
    \E f \in {gameLoop(Globals, ux, uy)} :
       /\ (ux = 50 /\ uy = 50) \/ f.flags.random
       /\ Become(f.world)
       /\ last' = Step("tick", "", f.flags)

\* a frame whose random draws are at the centre
Tick ==
    /\ Offered("frames", {wait(1)}) # {}
    /\ TakeFrame
    /\ TickWith(50, 50)

\* a frame that calls Math.random(), with draws off centre
TickOffCentre ==
    /\ opening = <<>>
    /\ budget.draws > 0 /\ budget.frames > 0
    /\ budget' = [budget EXCEPT !.frames = @ - 1, !.draws = @ - 1]
    /\ opening' = opening
    /\ \E ux \in OffCentre, uy \in OffCentre : TickWith(ux, uy)

KeyDown ==
    /\ TakeInput
    /\ \E e \in Offered("keydown", {press(key) : key \in Keys}) :
       \E w \in {handleKeyDown(Globals, e.key)} :
          /\ Become(w)
          /\ last' = InputStep("keydown", e.key)

KeyUp ==
    /\ TakeInput
    /\ \E e \in Offered("keyup", {release(key) : key \in gameState.keysPressed}) :
          /\ gameState' = handleKeyUp(gameState, e.key)
          /\ last' = InputStep("keyup", e.key)
    /\ UNCHANGED <<canvas, groundY, perm, player, chunks>>

MouseMove ==
    /\ TakeInput
    /\ \E e \in Offered("mousemove", {point(c.x, c.y) : c \in Pointers}) :
          gameState' = handleMouseMove(gameState, e.x, e.y)
    /\ last' = InputStep("mousemove", "")
    /\ UNCHANGED <<canvas, groundY, perm, player, chunks>>

Click ==
    /\ TakeInput
    /\ Offered("click", {click}) # {}
    /\ \E w \in {handleClick(Globals)} : Become(w)
    /\ last' = InputStep("click", "")

Resize ==
    /\ TakeInput
    /\ \E e \in Offered("resize", {resize(size) : size \in Sizes}) :
       \E w \in {resizeCanvas(Globals, e.size)} : Become(w)
    /\ last' = InputStep("resize", "")

\* window.restartGame, the button of the game-over overlay
Restart ==
    /\ TakeInput
    /\ Offered("restart", {restart}) # {}
    /\ \E w \in {restartGame(Globals)} : Become(w)
    /\ last' = InputStep("restart", "")

Next ==
    \/ Tick
    \/ TickOffCentre
    \/ KeyDown
    \/ KeyUp
    \/ MouseMove
    \/ Click
    \/ Resize
    \/ Restart

Spec == Init /\ [][Next]_vars

\* the same program, opened by the plays about holds
SpecHolds == InitHolds /\ [][Next]_vars

\* the fall goes on: requestAnimationFrame keeps calling gameLoop, so after
\* the play a figure without grip (in the grace period or falling) gets its
\* next frame whatever the budget of frames
FallOn ==
    IF opening # <<>> THEN Tick
    ELSE /\ ~gameState.gameOver /\ ~gameState.dangling
         /\ calculateTotalGrip(player) < minGripToHold
         /\ ~feetOnGroundOf(player)
         /\ UNCHANGED <<opening, budget>>
         /\ TickWith(50, 50)

NextFalls ==
    \/ FallOn
    \/ TickOffCentre
    \/ KeyDown
    \/ KeyUp
    \/ MouseMove
    \/ Click
    \/ Resize

\* the plays that end in a fall over a piton
FallPlays == {fallPlay}

\* the state after init() with a play that ends in a fall; after the play
\* no input arrives, and the frames with draws off centre are counted
InitFalls ==
    StartWith(FallPlays, [inputs |-> 0, draws |-> MaxDraws,
                          frames |-> MaxDraws])

\* ENABLED FallOn, written out
FallOnEnabled ==
    IF opening # <<>> THEN Head(opening).op = "frames"
    ELSE /\ ~gameState.gameOver /\ ~gameState.dangling
         /\ calculateTotalGrip(player) < minGripToHold
         /\ ~feetOnGroundOf(player)

\* weak fairness of FallOn: the browser keeps scheduling the next frame
FairFallOn == []<>(~FallOnEnabled) \/ []<><<FallOn>>_vars

\* the program with the frames of a fall scheduled fairly
SpecFalls == InitFalls /\ [][NextFalls]_vars /\ FairFallOn

----------------------------------------------------------------------------
(* Properties.  last describes the step that led to the current state:     *)
(* its kind, its key, the kind of the step before it, the mode it started  *)
(* in, the limb that was selected                                          *)
(* and whether it was attached, and what update() did; sinceSlip counts    *)
(* the ticks since the last forced slip (-1: none yet) and slipGap is the  *)
(* count at which the last slip after another one came.                    *)

Ticked == last.op = "tick"
EnteredBy(op) == last'.op = op
Reset ==
    \/ EnteredBy("restart")
    \/ EnteredBy("keydown") /\ last'.key = "Space" /\ gameState.gameOver
HardTier(p, g) ==
    /\ ~g.gameOver /\ ~g.dangling
    /\ calculateTotalGrip(p) < minGripToHold /\ ~feetOnGroundOf(p)
BelowViewport(p, cv) == p.y > cv.height + Px(500)
NearGround(p, gy) == p.y >= gy - Px(100)
LegsDown(p) == \A n \in LimbNames : isLegName(n) => p.limbs[n].onGround
ArmsFree(p) == \A n \in LimbNames : isArmName(n) => ~attached(p.limbs[n])
NoGrabs(p) ==
    \A n \in LimbNames : /\ p.limbs[n].grabbedAt = NoGrab
                         /\ p.limbs[n].previousGrab = NoGrab
                         /\ ~p.limbs[n].wasReleased
Stretch(p, n) ==
    hypot(p.limbs[n].x - anchorXOf(p, n), p.limbs[n].y - anchorYOf(p, n))

\* C1: on a tick with total grip below minGripToHold and no foot grounded
\* that does not hit the ground, fallTimer goes up by one (unless the rope
\* arrests the fall) and falling is true afterwards exactly when fallTimer
\* exceeds fallGracePeriod; in every state falling implies fallTimer > 60.
C1_FallsWhenGraceExceeded ==
    /\ [](gameState.falling => gameState.fallTimer > fallGracePeriod)
    /\ [][(EnteredBy("tick") /\ HardTier(player, gameState) /\ ~last'.landed)
          => /\ gameState'.falling
                   <=> gameState'.fallTimer > fallGracePeriod
             /\ gameState'.dangling
                   \/ gameState'.fallTimer = gameState.fallTimer + 1]_vars

\* the 61st tick of the grace period has just turned Active into Falling
C1_FirstFallingTick ==
    /\ Ticked /\ last.from = "Active"
    /\ gameState.falling /\ gameState.fallTimer = fallGracePeriod + 1

\* C2 as stated: on the tick the falling torso passes 80 below the last
\* piton the mode is Dangling and the vertical velocity is about 0.
C2_ArrestedOnThatTick ==
    (Ticked /\ last.caught /\ ~last.landed)
        => gameState.dangling /\ Abs(player.velocityY) < Px(1)

\* C2 amended: on the tick the falling torso passes 80 below the last piton
\* (and does not hit the ground) the torso is put 80 below the piton; the
\* mode becomes Dangling, with velocity 0 and fallTimer 0, when 0.3 times
\* the speed it arrives with is below 1, and otherwise the figure stays
\* Falling with its velocity reversed and scaled by 0.3.
C2_ArrestedOrBounced ==
    [][(EnteredBy("tick") /\ last'.caught /\ ~last'.landed)
       => LET speed == Min(player.velocityY + gravity, maxFallSpeed)
              lastPiton == gameState.pitons[Len(gameState.pitons)]
          IN /\ player'.y = lastPiton.y + Px(80)
             /\ IF 3 * Abs(speed) < 10 * Px(1)
                THEN /\ Mode(gameState') = "Dangling"
                     /\ player'.velocityY = 0
                     /\ gameState'.fallTimer = 0
                ELSE /\ Mode(gameState') = "Falling"
                     /\ player'.velocityY = Frac(speed, -3, 10)]_vars

\* the rope has just arrested a fall
C2_JustArrested ==
    /\ Ticked /\ last.from = "Falling" /\ last.caught
    /\ gameState.dangling /\ player.velocityY = 0

\* C3: a tick of a Dangling figure leaves it Dangling unless the torso is at
\* groundY - 100 or below, and never makes it Falling or GameOver; between
\* ticks only Space (or a reset) ends Dangling.
C3_DanglingUntilResumeOrGround ==
    [][(gameState.dangling /\ ~gameState.gameOver)
       => /\ EnteredBy("tick")
                => /\ gameState'.dangling <=> ~NearGround(player', groundY)
                   /\ ~gameState'.falling /\ ~gameState'.gameOver
          /\ ~EnteredBy("tick")
                => \/ gameState'.dangling
                   \/ EnteredBy("keydown") /\ last'.key = "Space"
                   \/ EnteredBy("restart")]_vars

\* a Dangling figure has gone through a tick and still dangles
C3_StillDangling ==
    Ticked /\ last.from = "Dangling" /\ Mode(gameState) = "Dangling"

\* C4 as stated: a figure leaves Falling only for Dangling, for Active on a
\* ground collision, or for GameOver (a reset apart).
C4_OnlyArrestLandingOrGameOver ==
    [][(Mode(gameState) = "Falling" /\ Mode(gameState') # "Falling"
           /\ ~EnteredBy("restart"))
       => \/ Mode(gameState') = "Dangling"
          \/ Mode(gameState') = "Active" /\ last'.landed
          \/ Mode(gameState') = "GameOver"]_vars

\* C4 amended: a figure leaves Falling only on a tick (a reset apart): for
\* Dangling, for Active on a ground collision, for Active when the tick
\* finds total grip at minGripToHold or more or a foot grounded, as after a
\* grab made in mid-fall, or for GameOver.
C4_AlsoRecoveredGrip ==
    [][(Mode(gameState) = "Falling" /\ Mode(gameState') # "Falling"
           /\ ~EnteredBy("restart"))
       => /\ EnteredBy("tick")
          /\ \/ Mode(gameState') = "Dangling"
             \/ Mode(gameState') = "Active" /\ last'.landed
             \/ Mode(gameState') = "Active" /\ ~HardTier(player, gameState)
             \/ Mode(gameState') = "GameOver"]_vars

\* a tick has just taken a Falling figure back to Active without a landing
C4_RecoveredInMidFall ==
    /\ Ticked /\ last.from = "Falling" /\ ~last.landed
    /\ Mode(gameState) = "Active"

\* C5 as stated: a tick that starts in Active, Falling or Dangling ends in
\* GameOver exactly when the torso ends more than 500 below the viewport,
\* and nothing else enters GameOver.
C5_GameOverIffBelowViewport ==
    [][~gameState.gameOver
       => IF EnteredBy("tick")
          THEN gameState'.gameOver <=> BelowViewport(player', canvas)
          ELSE ~gameState'.gameOver]_vars

\* C5 amended: a tick that starts in Active or Falling ends in GameOver
\* exactly when the torso ends more than 500 below the viewport; a tick that
\* starts in Dangling never ends in GameOver; nothing else enters GameOver.
C5_GameOverIffBelowViewportUnlessDangling ==
    [][~gameState.gameOver
       => IF EnteredBy("tick")
          THEN IF gameState.dangling
               THEN ~gameState'.gameOver
               ELSE gameState'.gameOver <=> BelowViewport(player', canvas)
          ELSE ~gameState'.gameOver]_vars

\* a tick has just ended the game
C5_JustGameOver ==
    /\ Ticked /\ last.from \in {"Active", "Falling"}
    /\ gameState.gameOver /\ BelowViewport(player, canvas)

\* C6: while GameOver a tick, a click and a key other than Space change
\* neither the player nor the game state, and GameOver is left only by a
\* reset (the overlay's button, or Space).
C6_GameOverIsTerminal ==
    [][gameState.gameOver
       => /\ (\/ EnteredBy("tick") \/ EnteredBy("click")
              \/ EnteredBy("keydown") /\ last'.key # "Space")
                => player' = player /\ gameState' = gameState
          /\ ~gameState'.gameOver => Reset]_vars

\* a piton key has been pressed while GameOver
C6_KeyWhileGameOver ==
    /\ gameState.gameOver /\ last.from = "GameOver"
    /\ last.op = "keydown" /\ last.key = "s"

\* C7: a reset yields the initial configuration, bestHeight apart.
C7_ResetRestoresInitial ==
    [][Reset
       => /\ gameState'.maxHeight = 0
          /\ gameState'.bestHeight = gameState.bestHeight
          /\ LegsDown(player') /\ ArmsFree(player') /\ NoGrabs(player')
          /\ gameState'.stamina = maxStamina
          /\ gameState'.fallTimer = 0
          /\ gameState'.gripInstability = 0
          /\ player'.velocityY = 0
          /\ gameState'.pitons = <<>>
          /\ ~gameState'.falling /\ ~gameState'.dangling
          /\ ~gameState'.gameOver]_vars

\* a reset has just followed a fall arrested on a piton
C7_ResetWhileDangling ==
    /\ last.op = "restart" /\ last.from = "Dangling"
    /\ gameState.bestHeight > 0

\* C8 as stated: after every tick every Grabbed or Grounded limb is within
\* its maximum reach of its anchor (a pixel is allowed for rounding).
C8_AttachedWithinReach ==
    Ticked => \A n \in LimbNames :
                 attached(player.limbs[n])
                    => Stretch(player, n) <= maxReachOf(n) + Px(1)

\* C9 as stated: no limb is Grabbed and Grounded at once.
C9_GrabbedOrGroundedNotBoth ==
    \A n \in LimbNames :
        ~(player.limbs[n].grabbedAt.set /\ player.limbs[n].onGround)

Worked == Ticked /\ last.from \notin {"Dangling", "GameOver"}

Free(limb) == ~limb.grabbedAt.set /\ ~limb.onGround

Arms == {n \in LimbNames : isArmName(n)}

\* C11: after a tick whose stamina update left the stamina at 0, both arms
\* are Free.
C11_ArmsFreeAtZeroStamina ==
    (Worked /\ gameState.stamina = 0)
       => \A n \in Arms : Free(player.limbs[n])

\* the tick on which the stamina of a figure hanging by its arms ran out
C11_ArmsGaveOut ==
    /\ Worked /\ gameState.stamina = 0
    /\ \A n \in Arms : Free(player.limbs[n]) /\ player.limbs[n].wasReleased
    /\ \E n \in LimbNames : player.limbs[n].grabbedAt.set

\* C12 as stated: the grip instability accumulator is never negative.
C12_GripInstabilityNonNegative == gameState.gripInstability >= 0

\* C13: a tick of a figure that is neither Dangling nor GameOver, whose
\* total grip is at least playerWeight or which has a leg Grounded, does not
\* increase gripInstability.
C13_NoTiringOnGoodGrip ==
    [][(/\ EnteredBy("tick")
        /\ Mode(gameState) \notin {"Dangling", "GameOver"}
        /\ \/ calculateTotalGrip(player) >= playerWeight
           \/ feetOnGroundOf(player))
       => gameState'.gripInstability <= gameState.gripInstability]_vars

\* a tick of a figure whose holds alone carry its weight, no foot grounded
C13_HeldByHoldsAlone ==
    /\ Worked /\ last.branch = "stable" /\ ~last.slipped
    /\ ~feetOnGroundOf(player)
    /\ calculateTotalGrip(player) >= playerWeight
    /\ gameState.stamina > 0

\* the limbs still Grabbed when the slipping logic runs: the arms of a
\* figure whose stamina this tick left at 0 have already let go
HeldAtSlip ==
    {n \in LimbNames : /\ player.limbs[n].grabbedAt.set
                       /\ ~(isArmName(n) /\ gameState'.stamina <= 0)}

\* C14: on a tick whose increment takes gripInstability above
\* maxGripInstability while a limb is Grabbed, exactly one limb is released
\* by the slip, a Grabbed limb of lowest stickiness, and gripInstability
\* becomes 60.
C14_SlipReleasesWeakest ==
    [][(/\ EnteredBy("tick")
        /\ Mode(gameState) \notin {"Dangling", "GameOver"}
        /\ calculateTotalGrip(player) < playerWeight
        /\ ~feetOnGroundOf(player)
        /\ gameState.gripInstability + 1 > maxGripInstability
        /\ HeldAtSlip # {})
       => /\ gameState'.gripInstability = 60
          /\ \E n \in HeldAtSlip :
                /\ Free(player'.limbs[n]) /\ player'.limbs[n].wasReleased
                /\ \A m \in HeldAtSlip :
                      player.limbs[n].grabbedAt.stickiness
                         <= player.limbs[m].grabbedAt.stickiness
                /\ \A m \in HeldAtSlip \ {n} :
                      player'.limbs[m].grabbedAt = player.limbs[m].grabbedAt]_vars

\* the weaker of two holds has just slipped, the stronger still holds
C14_WeakerHoldSlipped ==
    /\ Worked /\ last.slipped /\ gameState.gripInstability = 60
    /\ \E n, m \in LimbNames :
          /\ player.limbs[n].grabbedAt.set
          /\ Free(player.limbs[m]) /\ player.limbs[m].wasReleased

\* C15 as stated: at the end of every tick gripInstability is at most
\* maxGripInstability.
C15_GripInstabilityAtMostCeiling ==
    Ticked => gameState.gripInstability <= maxGripInstability

GrabbedLimbs == {n \in LimbNames : player.limbs[n].grabbedAt.set}

GroundedLimbs == {n \in LimbNames : player.limbs[n].onGround}

\* the recorded strengths of a set of Grabbed limbs, in thousandths
RECURSIVE Strengths(_)
Strengths(S) ==
    IF S = {} THEN 0
    ELSE LET n == CHOOSE n \in S : TRUE
         IN 10 * player.limbs[n].grabbedAt.stickiness + Strengths(S \ {n})

\* C16: calculateTotalGrip is the sum of the strengths of the Grabbed limbs
\* plus 1.0 for every Grounded limb, times 1.3 with exactly 3 contact
\* points, times 1.5 with exactly 4, times 1 otherwise; with 3 or 4 contacts
\* it is strictly greater than the plain sum.
C16_GripIsSumWithBonus ==
    LET plain == Strengths(GrabbedLimbs) + 1000 * Cardinality(GroundedLimbs)
        contacts == Cardinality(GrabbedLimbs) + Cardinality(GroundedLimbs)
        grip == calculateTotalGrip(player)
    IN /\ contacts = 3 => 10 * grip = 13 * plain /\ grip > plain
       /\ contacts = 4 => 10 * grip = 15 * plain /\ grip > plain
       /\ contacts \notin {3, 4} => grip = plain

\* two feet on the ground and one hand on a hold: three contact points
C16_ThreeContacts ==
    /\ Cardinality(GrabbedLimbs) = 1 /\ Cardinality(GroundedLimbs) = 2
    /\ GrabbedLimbs \cap GroundedLimbs = {}
    /\ calculateTotalGrip(player) > 2000

\* the step places a piton: the new one, at the torso and 20 above it, is
\* the last of the sequence, the others keep their order and positions, and
\* the oldest is gone if the sequence was full
PitonPlaced ==
    LET old == gameState.pitons
        new == gameState'.pitons
    IN /\ EnteredBy("keydown") /\ last'.key = "s"
       /\ new # <<>>
       /\ new[Len(new)] = [x |-> player.x, y |-> player.y - Px(20)]
       /\ IF Len(old) < maxPitons
          THEN /\ Len(new) = Len(old) + 1
               /\ \A i \in 1..Len(old) : new[i] = old[i]
          ELSE /\ Len(new) = maxPitons
               /\ \A i \in 1..(maxPitons - 1) : new[i] = old[i + 1]

\* C17: the piton sequence never holds more than maxPitons entries; it
\* changes only when a piton is placed (a reset apart); a fresh press of s
\* by a figure that is neither Falling nor GameOver places one, the new
\* piton becoming the last element and the oldest leaving a full sequence;
\* the pitons that stay keep their positions.
C17_PitonsBoundedQueue ==
    /\ [](Len(gameState.pitons) <= maxPitons)
    /\ [][gameState'.pitons # gameState.pitons => Reset \/ PitonPlaced]_vars
    /\ [][(/\ EnteredBy("keydown") /\ last'.key = "s"
            /\ "s" \notin gameState.keysPressed
            /\ ~gameState.falling /\ ~gameState.gameOver)
           => PitonPlaced]_vars

\* the eleventh piton has just been placed: the first one placed is gone
C17_OldestEvicted ==
    /\ last.op = "keydown" /\ last.key = "s"
    /\ Len(gameState.pitons) = maxPitons
    /\ gameState.pitons[maxPitons] = [x |-> player.x, y |-> player.y - Px(20)]
    /\ \A i \in 1..maxPitons : gameState.pitons[i].x # canvas.width \div 2

\* the selected limb
Selected == player.limbs[gameState.selectedLimb]

\* the selected limb has rock to hold at its position and is not a leg above
\* the shoulder line
CanGrab ==
    /\ getGrabbabilityAt(canvas, Selected.x, Selected.y) >= grabThreshold
    /\ ~(/\ isLegName(gameState.selectedLimb)
         /\ Selected.y < player.y - torsoLength \div 2)

\* C18 as stated: a click while the selected limb is Free makes the limb
\* Grabbed exactly when the grabbability at its position is at least
\* grabThreshold and a leg is not above the shoulder line; a rejected
\* attempt changes nothing of the figure.
C18_GrabIffRockAndBelowShoulder ==
    [][(EnteredBy("click") /\ Free(Selected))
       => /\ player'.limbs[gameState.selectedLimb].grabbedAt.set <=> CanGrab
          /\ ~CanGrab => player' = player /\ gameState' = gameState]_vars

\* C18 amended: while not GameOver, a click while the selected limb is Free
\* makes the limb Grabbed exactly when the grabbability at its position is
\* at least grabThreshold and a leg is not above the shoulder line, and a
\* rejected attempt changes nothing of the figure; while GameOver a click
\* grabs nothing.
C18_GrabIffRockAndBelowShoulderUnlessOver ==
    [][(EnteredBy("click") /\ Free(Selected))
       => IF gameState.gameOver
          THEN player' = player /\ gameState' = gameState
          ELSE /\ player'.limbs[gameState.selectedLimb].grabbedAt.set
                     <=> CanGrab
               /\ CanGrab =>
                     player'.limbs[gameState.selectedLimb].grabbedAt
                        = GrabAt(Selected.x, Selected.y,
                                 getGrabbabilityAt(canvas, Selected.x, Selected.y))
               /\ ~CanGrab => player' = player /\ gameState' = gameState]_vars

\* a click has just been rejected: the selected leg is on rock it could
\* hold, but above the shoulder line
C18_LegRejectedAboveShoulder ==
    /\ last.op = "click" /\ ~gameState.gameOver
    /\ isLegName(gameState.selectedLimb) /\ Free(Selected)
    /\ getGrabbabilityAt(canvas, Selected.x, Selected.y) >= grabThreshold
    /\ Selected.y < player.y - torsoLength \div 2

\* the step is a limb-select key that handleKeyDown acts on: the key is not
\* held already and the game is not over
SelectKey ==
    /\ EnteredBy("keydown") /\ last'.key \in LimbKeys
    /\ last'.key \notin gameState.keysPressed
    /\ ~gameState.gameOver

\* C19 as stated: a limb-select key naming another limb than the selected
\* one, while the selected one is attached, releases the limb that was
\* selected.
C19_SwitchReleasesPrevious ==
    [][(/\ SelectKey
        /\ keyMap(last'.key) # gameState.selectedLimb
        /\ attached(Selected))
       => Free(player'.limbs[gameState.selectedLimb])]_vars

\* C19 amended: such a key leaves the limb that was selected attached as it
\* was, clearing only its previous-hold memory and its recently-released
\* flag; the limb it releases is the newly selected one, which loses its
\* hold, or its ground contact when it has no hold, and so is Free unless
\* it was Grabbed and Grounded at once.
C19_SwitchKeepsPreviousAttached ==
    [][(/\ SelectKey
        /\ keyMap(last'.key) # gameState.selectedLimb
        /\ attached(Selected))
       => LET before == Selected
              after == player'.limbs[gameState.selectedLimb]
          IN /\ after.grabbedAt = before.grabbedAt
             /\ after.onGround = before.onGround
             /\ after.previousGrab = NoGrab /\ ~after.wasReleased
             /\ gameState'.selectedLimb = keyMap(last'.key)
             /\ ~player'.limbs[keyMap(last'.key)].grabbedAt.set
             /\ player'.limbs[keyMap(last'.key)].onGround
                   <=> (/\ player.limbs[keyMap(last'.key)].grabbedAt.set
                        /\ player.limbs[keyMap(last'.key)].onGround)]_vars

\* another limb has just been selected and the hand that was selected still
\* holds
C19_PreviousStillHolds ==
    /\ last.op = "keydown" /\ last.key \in LimbKeys
    /\ gameState.selectedLimb = keyMap(last.key)
    /\ last.selected # gameState.selectedLimb /\ last.wasHeld
    /\ player.limbs[last.selected].grabbedAt.set
    /\ Free(Selected)

\* C20: a limb-select key naming the selected limb while it is Grabbed or
\* Grounded makes the limb Free, clears its previous-hold memory and its
\* recently-released flag, and leaves the selection as it was.
C20_DoublePressForcesRelease ==
    [][(/\ SelectKey
        /\ keyMap(last'.key) = gameState.selectedLimb
        /\ attached(Selected))
       => LET after == player'.limbs[gameState.selectedLimb]
          IN /\ Free(after)
             /\ after.previousGrab = NoGrab /\ ~after.wasReleased
             /\ gameState'.selectedLimb = gameState.selectedLimb]_vars

\* the key of the selected limb has just let go of the hold it had
C20_SelectedLimbLetGo ==
    /\ last.op = "keydown" /\ last.key \in LimbKeys
    /\ gameState.selectedLimb = keyMap(last.key)
    /\ last.selected = gameState.selectedLimb /\ last.wasHeld
    /\ Free(Selected) /\ ~Selected.wasReleased

\* limb b is limb a, moved or not
SameButPlace(a, b) == [b EXCEPT !.x = a.x, !.y = a.y] = a

\* between this state and the next no limb changes but in its position, and
\* no attached limb changes at all
LimbsOnlyDrift ==
    \A n \in LimbNames :
       /\ SameButPlace(player.limbs[n], player'.limbs[n])
       /\ attached(player.limbs[n]) => player'.limbs[n] = player.limbs[n]

\* C21 as stated: a tick of a Dangling figure changes only the torso
\* position and velocity, the positions of free limbs and the camera:
\* stamina, gripInstability, fallTimer, the height records, the attachment
\* of every limb and the mode are as before.
C21_DanglingTickOnlyMoves ==
    [][(EnteredBy("tick") /\ Mode(gameState) = "Dangling")
       => /\ [gameState' EXCEPT !.camera = gameState.camera] = gameState
          /\ LimbsOnlyDrift]_vars

\* C21 amended: a tick of a Dangling figure changes only the torso position
\* and velocity, the positions of free limbs, the camera, and the dangling
\* flag, which it clears when the torso is within 100 of the ground line.
C21_DanglingTickOnlyMovesOrEnds ==
    [][(EnteredBy("tick") /\ Mode(gameState) = "Dangling")
       => /\ [gameState' EXCEPT !.camera = gameState.camera,
                                !.dangling = gameState.dangling] = gameState
          /\ ~gameState'.dangling => NearGround(player', groundY)
          /\ LimbsOnlyDrift]_vars

\* a tired Dangling figure has gone through a tick on the rope
C21_TiredOnTheRope ==
    /\ Ticked /\ last.from = "Dangling" /\ gameState.dangling
    /\ gameState.stamina < maxStamina /\ gameState.gripInstability > 0
    /\ gameState.pitons # <<>>

\* C22: Space pressed while the figure is neither Dangling nor GameOver
\* changes nothing of the figure or of the simulation state but the record
\* of the keys held.
C22_SpaceOutsideDanglingIsNoOp ==
    [][(/\ EnteredBy("keydown") /\ last'.key = "Space"
        /\ ~gameState.dangling /\ ~gameState.gameOver)
       => /\ player' = player
          /\ [gameState' EXCEPT !.keysPressed = gameState.keysPressed]
                = gameState]_vars

\* Space has just been pressed in mid-fall and the fall goes on
C22_SpaceInMidFall ==
    /\ last.op = "keydown" /\ last.key = "Space" /\ last.from = "Falling"
    /\ gameState.falling /\ player.velocityY > 0
    /\ "Space" \in gameState.keysPressed

\* the figure and the simulation state of a world
Figure(w) == [player |-> w.player, gameState |-> w.gameState]

\* C23: two resets in a row give the figure and the simulation state of a
\* single reset: from every state a reset of the reset state is that state,
\* and a reset that follows a reset changes neither.
C23_ResetIdempotent ==
    /\ [](Figure(restartGame(restartGame(Globals)))
             = Figure(restartGame(Globals)))
    /\ [][(EnteredBy("restart") /\ last.op = "restart")
          => player' = player /\ gameState' = gameState]_vars

\* a figure that had climbed and fallen has just been reset a second time
C23_ResetTwice ==
    /\ last.op = "restart" /\ last.prev = "restart"
    /\ gameState.bestHeight > 0

\* the feet line of a torso
FeetLine(p) == p.y + torsoLength \div 2 + upperLegLength + lowerLegLength

Legs == {n \in LimbNames : isLegName(n)}

\* C24: a hard-tier tick (total grip below minGripToHold, no foot grounded),
\* in the grace period or in the fall, that brings the feet line to groundY
\* or below lands the figure on that tick: falling false, fallTimer 0,
\* velocity 0, every leg but a selected one Grounded at groundY and a
\* selected leg not Grounded.
C24_HardTierLandsOnGround ==
    [][(/\ EnteredBy("tick") /\ HardTier(player, gameState)
        /\ FeetLine(player') >= groundY)
       => /\ ~gameState'.falling /\ gameState'.fallTimer = 0
          /\ player'.velocityY = 0
          /\ \A n \in Legs :
                IF n = gameState.selectedLimb
                THEN ~player'.limbs[n].onGround
                ELSE /\ player'.limbs[n].onGround
                     /\ player'.limbs[n].y = groundY]_vars

\* a figure in its grace period has just landed on the leg that is not
\* selected
C24_LandedDuringGrace ==
    /\ Ticked /\ last.branch = "hard" /\ last.from = "Active" /\ last.landed
    /\ isLegName(gameState.selectedLimb) /\ ~Selected.onGround
    /\ \E n \in Legs : player.limbs[n].onGround /\ player.limbs[n].y = groundY
    /\ FeetLine(player) >= groundY

\* C25: the session's maximum height is at most the best height ever; the
\* best height never decreases, and the session's maximum decreases only on
\* a reset.
C25_HeightRecordsMonotone ==
    /\ [](gameState.maxHeight <= gameState.bestHeight)
    /\ [][/\ gameState'.bestHeight >= gameState.bestHeight
          /\ Reset \/ gameState'.maxHeight >= gameState.maxHeight]_vars

\* a figure that climbed in an earlier session stands at the start of a new
\* one: the best height is above the session's maximum
C25_BestOutlivesReset ==
    /\ Ticked /\ gameState.maxHeight = 0 /\ gameState.bestHeight > 0

\* C26: after every tick the bottom edge of the camera's view is at most
\* 100 below the ground line.
C26_CameraStopsAtGround ==
    Ticked => gameState.camera.y + canvas.height <= groundY + Px(100)

\* the camera rests on its limit while its target is further down
C26_CameraAtLimit ==
    /\ Ticked /\ last.from = "Active"
    /\ gameState.camera.y + canvas.height = groundY + Px(100)
    /\ player.y - Frac(canvas.height, 6, 10) > gameState.camera.y

----------------------------------------------------------------------------
(* The rock strip.                                                         *)

\* (x, y) lies farther from the strip's centre line than half its width
OffStrip(cv, x, y) == Abs(x - getWallCenter(cv, y)) > wallWidth \div 2

\* world coordinates across and beside the strip
ProbePoints ==
    {[x |-> Px(a), y |-> Px(b)] : a \in {-200, 0, 200, 400, 600, 800, 1000},
                                  b \in {300, 600, 900}}

\* C27: wherever a point lies farther from the strip's centre line at its
\* height than the half-width, getGrabbabilityAt is exactly 0 (at every
\* limb's position and at every probe point, in the window of the moment),
\* and no limb becomes Grabbed at such a point.
C27_NoRockOffStrip ==
    /\ [](/\ \A n \in LimbNames :
               OffStrip(canvas, player.limbs[n].x, player.limbs[n].y)
               => getGrabbabilityAt(canvas, player.limbs[n].x,
                                    player.limbs[n].y) = 0
          /\ \A pt \in ProbePoints :
               OffStrip(canvas, pt.x, pt.y)
               => getGrabbabilityAt(canvas, pt.x, pt.y) = 0)
    /\ [][\A n \in LimbNames :
             (~player.limbs[n].grabbedAt.set /\ player'.limbs[n].grabbedAt.set)
             => ~OffStrip(canvas', player'.limbs[n].grabbedAt.x,
                          player'.limbs[n].grabbedAt.y)]_vars

\* a click with the selected limb Free at a point beside the strip that is a
\* hold in the window of the start: the limb stays Free
C27_ClickBesideStrip ==
    /\ last.op = "click" /\ last.from = "Active" /\ ~last.wasHeld
    /\ ~Selected.grabbedAt.set
    /\ OffStrip(canvas, Selected.x, Selected.y)
    /\ getGrabbabilityAt(StartSize, Selected.x, Selected.y) >= grabThreshold

\* C28: getGrabbabilityAt depends on the coordinates and the permutation
\* table alone: over any step that keeps the table, its value at every probe
\* point and at every limb's position is the same before and after, whatever
\* else of the program's state the step changed.
C28_RockOfPointAndSeedOnly ==
    [][perm' = perm
       => /\ \A pt \in ProbePoints :
               getGrabbabilityAt(canvas', pt.x, pt.y)
                   = getGrabbabilityAt(canvas, pt.x, pt.y)
          /\ \A n \in LimbNames :
               getGrabbabilityAt(canvas', player.limbs[n].x, player.limbs[n].y)
                   = getGrabbabilityAt(canvas, player.limbs[n].x,
                                       player.limbs[n].y)]_vars

----------------------------------------------------------------------------
(* The chunk cache of the wall renderer.                                   *)

FirstVisible == chunkIndex(gameState.camera.y)
LastVisible == chunkIndex(gameState.camera.y + canvas.height)

\* C29: after every draw (one per tick, at the camera and the viewport
\* height of that tick) the cache holds every chunk index from
\* floor(cameraY / 512) to floor((cameraY + viewportHeight) / 512) and none
\* more than 2 outside that range, and the draw builds no chunk that the
\* cache already held.
C29_CacheCoversViewport ==
    /\ [](Ticked => /\ (FirstVisible .. LastVisible) \subseteq chunks
                    /\ \A k \in chunks :
                          k >= FirstVisible - 2 /\ k <= LastVisible + 2)
    /\ [][EnteredBy("tick")
          => drawn(chunks, gameState'.camera.y, canvas.height) \cap chunks = {}
       ]_vars

\* a draw after the camera travelled up by three chunks in the tall window:
\* the cache still holds the chunk two below the last visible one, kept from
\* an earlier draw, and no longer the one three below
C29_DistantChunkDeleted ==
    /\ Ticked /\ canvas = TowerSize
    /\ LastVisible + 3 \notin chunks
    /\ LastVisible + 2 \in chunks
    /\ FirstVisible <= -3

----------------------------------------------------------------------------
(* The body solver.                                                        *)

\* C30, as stated: updateBodyPosition runs on every tick that starts in
\* Active, the ticks of the hard tier's grace period among them, and on no
\* tick that starts in Falling or in Dangling.
C30_SolverOnEveryActiveTick ==
    Ticked => /\ last.from = "Active" => last.solver
              /\ last.from \in {"Falling", "Dangling"} => ~last.solver

\* C30, amended: updateBodyPosition runs on exactly the ticks that take the
\* else branch of the falling logic: not GameOver, not Dangling, and with
\* total grip of at least minGripToHold or a foot on the ground.  It runs on
\* no tick of the hard tier (grace period or fall), and the tick it runs on
\* ends with falling false, fallTimer 0 and no vertical speed.
C30_SolverOnStableTicksOnly ==
    [][EnteredBy("tick")
       => /\ last'.solver <=> /\ ~gameState.gameOver /\ ~gameState.dangling
                              /\ ~HardTier(player, gameState)
          /\ last'.solver => /\ ~gameState'.falling
                             /\ gameState'.fallTimer = 0
                             /\ player'.velocityY = 0]_vars

\* a tick of the grace period: Active before and after, the timer counts,
\* the torso wobbles and the solver did not run
C30_GraceTickWithoutSolver ==
    /\ Ticked /\ last.from = "Active" /\ last.branch = "hard"
    /\ Mode(gameState) = "Active"
    /\ gameState.fallTimer > 0 /\ gameState.fallTimer <= fallGracePeriod
    /\ ~last.solver

----------------------------------------------------------------------------
(* The mode flags.                                                         *)

ModeFlags(g) == {f \in {"falling", "dangling", "gameOver"} : g[f]}

\* C31: in every reachable state at most one of the flags falling, dangling
\* and gameOver is true, so the mode read from them is a single value that
\* does not depend on the order in which the flags are tested.
C31_AtMostOneModeFlag ==
    /\ Cardinality(ModeFlags(gameState)) <= 1
    /\ Mode(gameState) = IF gameState.falling THEN "Falling"
                         ELSE IF gameState.dangling THEN "Dangling"
                         ELSE IF gameState.gameOver THEN "GameOver"
                         ELSE "Active"

\* the tick that arrests a fall: falling is cleared as dangling is set
C31_FallingGaveWayToDangling ==
    /\ Ticked /\ last.from = "Falling"
    /\ ModeFlags(gameState) = {"dangling"}

----------------------------------------------------------------------------
(* The end of a fall on the rope.                                          *)

LastPiton == gameState.pitons[Len(gameState.pitons)]

\* the arrest point of the last piton lies above the line where the feet
\* meet the ground
ArrestAboveGround ==
    /\ gameState.pitons # <<>>
    /\ FeetLine([y |-> LastPiton.y + Px(80)]) < groundY

\* C32: a Falling figure with a piton whose arrest point lies above the
\* ground-collision line is eventually Dangling, unless an input event
\* arrives first: the bounce on the rope ends.
C32_FallEndsDangling ==
    (Mode(gameState) = "Falling" /\ ArrestAboveGround)
        ~> (gameState.dangling \/ last.op # "tick")

\* the rope has gone taut for the last time: the fall over a piton ended in
\* Dangling with no input since the play
C32_BounceEnded ==
    /\ Ticked /\ last.from = "Falling" /\ last.caught
    /\ gameState.dangling /\ ArrestAboveGround
    /\ opening = <<>> /\ budget.inputs = 0

----------------------------------------------------------------------------
(* The recovery window after a slip.                                       *)

\* C33: a forced slip that follows another forced slip comes at the 61st
\* tick after it at the earliest: the accumulator restarts at 60, must
\* exceed 120 and grows by at most 1 per tick.
C33_SlipsAtLeast61TicksApart ==
    /\ last.slipGap < 0 \/ last.slipGap >= 61
    /\ (Ticked /\ last.slipped)
          => gameState.gripInstability = maxGripInstability \div 2

\* the second slip of the figure that hangs by both arms: it comes 61 ticks
\* after the first and takes the last hold
C33_SecondSlip ==
    /\ Ticked /\ last.slipped /\ last.slipGap = 61
    /\ GrabbedLimbs = {}

----------------------------------------------------------------------------
(* The grip of a tick.                                                     *)

\* C34: the soft and the hard tier of a tick are decided by the total grip
\* and the grounded feet of the figure as the tick finds it, before the
\* stamina update: arms that the muscle failure of the tick releases still
\* count, and their loss shows in the tiers of the next tick.
C34_TiersUseGripBeforeStamina ==
    [][(EnteredBy("tick") /\ ~gameState.gameOver /\ ~gameState.dangling)
       => LET grip == calculateTotalGrip(player)
              feet == feetOnGroundOf(player)
          IN /\ last'.branch = IF grip < minGripToHold /\ ~feet
                               THEN "hard" ELSE "stable"
             /\ (grip < playerWeight /\ ~feet)
                   <=> \/ last'.slipped
                       \/ gameState'.gripInstability
                             = gameState.gripInstability + 1]_vars

\* the tick of the muscle failure: the arms have just let go, what is left
\* holds less than minGripToHold, and the tick was still a stable one
C34_FailureTickStillStable ==
    /\ Ticked /\ last.branch = "stable" /\ last.solver
    /\ gameState.stamina = 0 /\ gameState.fallTimer = 0
    /\ \A n \in Arms : player.limbs[n].wasReleased /\ Free(player.limbs[n])
    /\ calculateTotalGrip(player) < minGripToHold
    /\ ~feetOnGroundOf(player)

----------------------------------------------------------------------------
(* The camera follow.                                                      *)

\* C35: after a tick that is neither GameOver nor Dangling the camera is
\* where a single call of updateCamera, made with the torso the tick left,
\* would have put it: the second call of the tick changes nothing.
C35_SecondCameraCallIsNoOp ==
    [][(EnteredBy("tick") /\ ~gameState.gameOver /\ ~gameState.dangling)
       => gameState'.camera
             = updateCamera(player', gameState, canvas, groundY).camera]_vars

----------------------------------------------------------------------------
(* Gravity.                                                                *)

\* the limbs that are Grabbed or Grounded
Contacts(p) == {n \in LimbNames : attached(p.limbs[n])}

\* C36: gravity is added to the torso's vertical velocity only on ticks that
\* begin with fewer than two limbs Grabbed or Grounded; a tick that begins
\* with two or more contacts never applies it.
C36_GravityOnlyBelowTwoContacts ==
    [][(EnteredBy("tick") /\ last'.gravity)
       => Cardinality(Contacts(player)) < 2]_vars

\* a tick of the fall with one hold left: the weaker arm still holds its
\* 0.20 hold while gravity pulls the torso down
C36_FallingWithOneHold ==
    /\ Ticked /\ last.gravity /\ last.from = "Falling"
    /\ Cardinality(Contacts(player)) = 1
    /\ player.velocityY > gravity

----------------------------------------------------------------------------
(* Falling and game over.                                                  *)

\* C37: no tick that takes the hard tier (total grip below minGripToHold and
\* no foot grounded: the grace period and the fall) ends in GameOver; the
\* ground collision of the same tick lands the figure before the torso can
\* be below canvas.height + 500.
C37_HardTierNeverEndsGame ==
    [][(EnteredBy("tick") /\ HardTier(player, gameState))
       => /\ ~gameState'.gameOver
          /\ ~BelowViewport(player', canvas)
          /\ FeetLine(player') <= groundY + Px(50)]_vars

\* the window of a falling figure has shrunk above it: the tick lands the
\* figure on the new ground line instead of ending the game
C37_LandedInsteadOfGameOver ==
    /\ Ticked /\ last.branch = "hard" /\ last.from = "Falling" /\ last.landed
    /\ canvas = ShortSize
    /\ Mode(gameState) = "Active"
    /\ player.y = groundY - Px(60)

\* C38: a limb-select key that handleKeyDown acts on and that names another
\* limb than the selected one leaves the named limb Free (a Grabbed or
\* Grounded one is released, marked as recently released) and selected, and
\* leaves the hold and the ground contact of each of the three other limbs,
\* the one that was selected among them, as they were.  It fails for a leg
\* that the ground collision left Grabbed and Grounded at once: the key
\* clears its hold and leaves it Grounded.
C38_SwitchReleasesOnlyNewLimb ==
    [][(/\ SelectKey
        /\ keyMap(last'.key) # gameState.selectedLimb)
       => LET newLimb == keyMap(last'.key)
          IN /\ Free(player'.limbs[newLimb])
             /\ attached(player.limbs[newLimb]) => player'.limbs[newLimb].wasReleased
             /\ gameState'.selectedLimb = newLimb
             /\ \A n \in LimbNames \ {newLimb} :
                   /\ player'.limbs[n].grabbedAt = player.limbs[n].grabbedAt
                   /\ player'.limbs[n].onGround = player.limbs[n].onGround]_vars

\* the arrow keys that updateGroundMovement reads
ArrowKeys == {"ArrowLeft", "ArrowRight"}

\* where update() leaves the torso when no arrow key is held
TorsoWithoutOffset ==
    LET still == [gameState EXCEPT !.keysPressed = @ \ ArrowKeys]
    IN {LET u == update(player, still, canvas, groundY, ux, uy).player
        IN <<u.x, u.y>> : ux \in OffCentre \cup {50}, uy \in OffCentre \cup {50}}

\* C39: a tick that starts with no leg Grounded leaves the torso where the
\* same tick with no arrow key held leaves it: the ground-locomotion offset
\* moves the torso only on ticks where a leg is Grounded.
C39_OffsetNeedsGroundedLeg ==
    [][(EnteredBy("tick") /\ ~feetOnGroundOf(player))
       => <<player'.x, player'.y>> \in TorsoWithoutOffset]_vars

\* C40: a fresh press of the piton key places a piton exactly when the
\* figure is neither Falling nor GameOver.  In those two modes the piton
\* sequence stays as it was; in Active (the grace period included) and in
\* Dangling the piton at the torso is appended, and it is the last of the
\* sequence, which is the piton the rope hangs from.
C40_PitonAcceptedUnlessFallingOrOver ==
    [][(/\ EnteredBy("keydown") /\ last'.key = "s"
        /\ "s" \notin gameState.keysPressed)
       => /\ PitonPlaced <=> Mode(gameState) \notin {"Falling", "GameOver"}
          /\ Mode(gameState) \in {"Falling", "GameOver"}
                => gameState'.pitons = gameState.pitons
          /\ Mode(gameState) = "Dangling"
                => /\ gameState'.dangling
                   /\ LastPiton' = [x |-> player.x, y |-> player.y - Px(20)]
                   /\ LastPiton' # LastPiton]_vars

\* a piton has just been placed by a figure that dangles from an earlier
\* one: the rope now hangs from the new piton, 20 above the torso
C40_PlacedWhileDangling ==
    /\ last.op = "keydown" /\ last.key = "s" /\ last.from = "Dangling"
    /\ gameState.dangling
    /\ Len(gameState.pitons) = 2
    /\ LastPiton = [x |-> player.x, y |-> player.y - Px(20)]
    /\ gameState.pitons[1].y < LastPiton.y

====
